---- MODULE Spec2Model ----
(***************************************************************************)
(* Model of the release scoring engine, src/lib/server/scoring/scorer.ts.  *)
(*                                                                         *)
(* The engine is a set of pure functions.  Each exported operation is an   *)
(* action that draws its arguments from bounded sets, applies the          *)
(* operation as the code computes it and records the call in op / args     *)
(* and what it returned in res.                                            *)
(*                                                                         *)
(* Conventions                                                             *)
(*  - an optional value (undefined in the code) is a sequence of length    *)
(*    0 or 1: None, Some(v);                                               *)
(*  - a JavaScript number that can be +-Infinity or NaN is a record        *)
(*    [k, v] (see Num, NegInf, PosInf, NaN);                               *)
(*  - file sizes are held in units of 1024 bytes (TLC integers are 32 bit  *)
(*    and the sizes of interest reach tens of GB), so the code's           *)
(*    1024 * 1024 bytes per MB is KiBPerMb = 1024 units and its            *)
(*    1024 * 1024 * 1024 bytes per GB is KiBPerGb = 1024 * 1024 units.     *)
(*    A floating point quotient is held as numerator and denominator and   *)
(*    compared by cross-multiplication.                                    *)
(***************************************************************************)
EXTENDS Integers, Sequences, FiniteSets, TLC

VARIABLES
    pc,            \* "called" / "returned" ("idle" before the first call of a session)
    op,            \* the operation called
    args,          \* its arguments
    res,           \* what it returned
    patternCache,  \* the matcher's compiled patterns, by pattern string
    lookup,        \* how evaluateCondition got its pattern: "none" / "miss" / "hit"
    memo           \* the first scoreRelease call of a session, with its result

vars == <<pc, op, args, res, patternCache, lookup, memo>>

----------------------------------------------------------------------------
(* Optional values *)

None == <<>>

Some(v) == <<v>>

\* JavaScript truthiness of an optional boolean (undefined is falsy)
Truthy(o) == o = Some(TRUE)

----------------------------------------------------------------------------
(* JavaScript numbers with the IEEE special values the scorer produces *)

Num(n) == [k |-> "num", v |-> n]

NegInf == [k |-> "-inf", v |-> 0]

PosInf == [k |-> "+inf", v |-> 0]

NaN == [k |-> "nan", v |-> 0]

\* Mutant: a number minus -Infinity is not a number
ExtSub_FromNegInfIsNaN(a, b) ==
    CASE a.k = "nan" \/ b.k = "nan" -> NaN
      [] a.k = "num" /\ b.k = "num" -> Num(a.v - b.v)
      [] a.k = "num" /\ b.k = "-inf" -> NaN
      [] a.k = "num" /\ b.k = "+inf" -> NegInf
      [] a.k = "-inf" /\ b.k = "-inf" -> NaN
      [] a.k = "+inf" /\ b.k = "+inf" -> NaN
      [] a.k = "-inf" -> NegInf
      [] OTHER -> PosInf

\* a - b
ExtSub(a, b) ==
    CASE a.k = "nan" \/ b.k = "nan" -> NaN
      [] a.k = "num" /\ b.k = "num" -> Num(a.v - b.v)
      [] a.k = "num" /\ b.k = "-inf" -> PosInf
      [] a.k = "num" /\ b.k = "+inf" -> NegInf
      [] a.k = "-inf" /\ b.k = "-inf" -> NaN
      [] a.k = "+inf" /\ b.k = "+inf" -> NaN
      [] a.k = "-inf" -> NegInf
      [] OTHER -> PosInf

\* a > b (false when either is NaN)
ExtGt(a, b) ==
    CASE a.k = "nan" \/ b.k = "nan" -> FALSE
      [] a.k = "num" /\ b.k = "num" -> a.v > b.v
      [] a.k = "+inf" -> b.k # "+inf"
      [] a.k = "-inf" -> FALSE
      [] OTHER -> b.k = "-inf"

\* a >= b (false when either is NaN)
ExtGe(a, b) == a.k # "nan" /\ b.k # "nan" /\ (a = b \/ ExtGt(a, b))

\* a < b (false when either is NaN)
ExtLt(a, b) == ExtGt(b, a)

\* Math.abs
ExtAbs(a) ==
    CASE a.k = "nan" -> NaN
      [] a.k = "num" -> Num(IF a.v < 0 THEN -a.v ELSE a.v)
      [] OTHER -> PosInf

----------------------------------------------------------------------------
(* Sequence helpers *)

RECURSIVE SumSeq(_)
SumSeq(s) == IF s = <<>> THEN 0 ELSE Head(s) + SumSeq(Tail(s))

\* Array.prototype.indexOf: 0-based position of the first x, -1 when absent
IndexOf(s, x) ==
    IF \E i \in 1..Len(s) : s[i] = x
    THEN (CHOOSE i \in 1..Len(s) : s[i] = x /\ \A j \in 1..(i - 1) : s[j] # x) - 1
    ELSE -1

----------------------------------------------------------------------------
(* The format library.  scoreRelease reads only id, name and category of a *)
(* format; the conditions are the matcher's business.                      *)

Format(id, name, category) == [id |-> id, name |-> name, category |-> category]

\* The library in catalogue order, which is not the HDR priority order.
ALL_FORMATS ==
    << Format("1080p-webdl", "1080p WEB-DL", "resolution"),
       Format("hdr-custom-a", "Custom HDR A", "hdr"),
       Format("hdr-generic", "HDR", "hdr"),
       Format("hdr-custom-b", "Custom HDR B", "hdr"),
       Format("hdr-hdr10", "HDR10", "hdr"),
       Format("hdr-dolby-vision", "Dolby Vision", "hdr"),
       Format("banned-cam", "CAM", "banned"),
       Format("group-yts", "YTS", "release_group_tier"),
       Format("other-remux", "Remux", "other") >>

FormatIds == {ALL_FORMATS[i].id : i \in 1..Len(ALL_FORMATS)}

\* ReleaseAttributes, abstracted to what the matcher makes of them: the set
\* of ids of the library formats whose conditions the attributes satisfy.
AttrSpace == SUBSET FormatIds

\* matchFormats(attrs, formats): the formats that match, in library order,
\* each with its condition trace (not modelled here).
matchFormats(attrs, formats) ==
    LET matching(f) == f.id \in attrs
        hit == SelectSeq(formats, matching)
    IN  [i \in 1..Len(hit) |-> [format |-> hit[i]]]

----------------------------------------------------------------------------
(* Releases known to the parser: name -> attributes *)

RELEASE_NAMES ==
    { "Movie.2024.1080p.WEB-DL.DD5.1.H.264-GROUP",
      "Show.S01E01.1080p.WEB-DL.x264-GROUP",
      "Show.S01E02.1080p.WEB-DL.x264-GROUP",
      "Movie.2024.1080p.BluRay.x264-YTS.MX",
      "Movie.2024.2160p.WEB-DL.DV.HDR.DDP5.1-GROUP",
      "Movie.2024.CAM.x264-GROUP",
      "Movie.2024.1080p.WEB-DL.CAM-YTS" }

\* parseRelease(releaseName): parser.parse then extractAttributes
parseRelease(releaseName) ==
    CASE releaseName = "Movie.2024.1080p.WEB-DL.DD5.1.H.264-GROUP" -> {"1080p-webdl"}
      [] releaseName = "Show.S01E01.1080p.WEB-DL.x264-GROUP" -> {"1080p-webdl"}
      [] releaseName = "Show.S01E02.1080p.WEB-DL.x264-GROUP" -> {"1080p-webdl"}
      [] releaseName = "Movie.2024.1080p.BluRay.x264-YTS.MX" -> {"group-yts"}
      [] releaseName = "Movie.2024.2160p.WEB-DL.DV.HDR.DDP5.1-GROUP" ->
             {"hdr-dolby-vision", "hdr-generic"}
      [] releaseName = "Movie.2024.CAM.x264-GROUP" -> {"banned-cam"}
      [] releaseName = "Movie.2024.1080p.WEB-DL.CAM-YTS" ->
             {"1080p-webdl", "banned-cam", "group-yts"}
      [] OTHER -> {}

----------------------------------------------------------------------------
(* The matcher: conditions, the compiled-pattern cache, format evaluation. *)
(* Condition types modelled: resolution, source, hdr, release_title,       *)
(* release_group, flag.  A regular expression is known by its source; what *)
(* it matches is tabulated for the patterns and texts used here.           *)

\* ReleaseAttributes (the fields the modelled condition types read)
Attrs(title, resolution, source, hdr, releaseGroup, isRemux, isProper) ==
    [ title |-> title, resolution |-> resolution, source |-> source, hdr |-> hdr,
      releaseGroup |-> releaseGroup, isRemux |-> isRemux, isProper |-> isProper ]

\* The outcome of a call that throws
Thrown == [threw |-> TRUE]

\* Patterns that are not valid regular expressions
INVALID_PATTERNS == {"[invalid("}

\* <<source, text>>: the case-insensitive expression of that source is found
\* in that text
REGEX_MATCHES ==
    { <<"REMUX", "Movie.2024.2160p.UHD.BluRay.REMUX.DV.HDR.TrueHD.Atmos.7.1-GROUP">>,
      <<"\\bHDR\\b", "Movie.2024.2160p.UHD.BluRay.REMUX.DV.HDR.TrueHD.Atmos.7.1-GROUP">>,
      <<"\\bHDR\\b", "Movie.2024.2160p.WEB-DL.DV.HDR.DDP5.1-GROUP">>,
      <<"\\bCAM\\b", "Movie.2024.CAM.x264-GROUP">>,
      <<"\\bCAM\\b", "Movie.2024.1080p.WEB-DL.CAM-YTS">>,
      <<"\\bYTS(\\.MX|\\.LT|\\.AG)?\\b", "Movie.2024.1080p.BluRay.x264-YTS.MX">>,
      <<"\\bYTS(\\.MX|\\.LT|\\.AG)?\\b", "Movie.2024.1080p.WEB-DL.CAM-YTS">>,
      <<"^YTS(\\.MX|\\.LT|\\.AG)?$", "YTS.MX">>,
      <<"^YTS(\\.MX|\\.LT|\\.AG)?$", "YTS">>,
      <<"GROUP", "GROUP">> }

\* The expression that matches nothing, cached for an invalid pattern
NEVER_MATCH == [ok |-> TRUE, source |-> "(?!)", flags |-> ""]

\* new RegExp(pattern, 'i'): throws on an invalid pattern
NewRegExp(pattern) ==
    IF pattern \in INVALID_PATTERNS
    THEN [ok |-> FALSE, source |-> pattern, flags |-> "i"]
    ELSE [ok |-> TRUE, source |-> pattern, flags |-> "i"]

\* regex.test(text)
RegExpTest(regex, text) == <<regex.source, text>> \in REGEX_MATCHES

\* The cache with nothing compiled (also what clearPatternCache leaves)
EmptyCache == <<>>

\* Mutant: the error of an invalid pattern not caught
getCachedPattern_NoCatch(pattern, cache) ==
    IF pattern \in DOMAIN cache
    THEN [regex |-> cache[pattern], cache |-> cache, lookup |-> "hit"]
    ELSE LET compiled == NewRegExp(pattern)
         IN  [ regex |-> compiled,
               cache |-> IF compiled.ok THEN cache @@ (pattern :> compiled) ELSE cache,
               lookup |-> "miss" ]

\* Mutant: what the cache holds is worn out by its first use, so a pattern
\* found in the cache matches nothing
getCachedPattern_StaleOnHit(pattern, cache) ==
    IF pattern \in DOMAIN cache
    THEN [regex |-> NEVER_MATCH, cache |-> cache, lookup |-> "hit"]
    ELSE LET compiled == NewRegExp(pattern)
             regex == IF compiled.ok THEN compiled ELSE NEVER_MATCH
         IN  [ regex |-> regex,
               cache |-> cache @@ (pattern :> regex),
               lookup |-> "miss" ]

\* The compiled expression of a pattern: from the cache when it is there,
\* else compiled (an invalid pattern to NEVER_MATCH) and put into the cache
getCachedPattern(pattern, cache) ==
    IF pattern \in DOMAIN cache
    THEN [regex |-> cache[pattern], cache |-> cache, lookup |-> "hit"]
    ELSE LET compiled == NewRegExp(pattern)
             regex == IF compiled.ok THEN compiled ELSE NEVER_MATCH
         IN  [ regex |-> regex,
               cache |-> cache @@ (pattern :> regex),
               lookup |-> "miss" ]

\* A pattern tested against a text through the cache; threw when compiling
\* threw and nothing caught it
TestOf(got, text) ==
    [ threw |-> ~got.regex.ok,
      raw |-> got.regex.ok /\ RegExpTest(got.regex, text),
      cache |-> got.cache, lookup |-> got.lookup ]

PatternTest(pattern, text, cache) == TestOf(getCachedPattern(pattern, cache), text)

NoLookup(raw, cache) ==
    [threw |-> FALSE, raw |-> raw, cache |-> cache, lookup |-> "none"]

\* The predicate of a condition before negation
RawMatchOf(condition, attrs, cache) ==
    CASE condition.type = "resolution" ->
             NoLookup(attrs.resolution = condition.resolution, cache)
      [] condition.type = "source" ->
             NoLookup(attrs.source = condition.source, cache)
      [] condition.type = "hdr" ->
             NoLookup(IF condition.hdr = None \/ condition.hdr = Some("sdr")
                      THEN attrs.hdr = None \/ attrs.hdr = condition.hdr
                      ELSE attrs.hdr = condition.hdr, cache)
      [] condition.type = "release_title" ->
             PatternTest(condition.pattern, attrs.title, cache)
      [] condition.type = "release_group" ->
             IF attrs.releaseGroup = None THEN NoLookup(FALSE, cache)
             ELSE PatternTest(condition.pattern, attrs.releaseGroup[1], cache)
      [] condition.type = "flag" ->
             NoLookup(attrs[condition.flag] = Some(TRUE), cache)
      [] OTHER -> NoLookup(FALSE, cache)

\* Mutant: rawMatch reported after negation
ConditionResult_RawNegated(rawMatch, negate) ==
    [ threw |-> FALSE,
      matches |-> IF negate THEN ~rawMatch ELSE rawMatch,
      rawMatch |-> IF negate THEN ~rawMatch ELSE rawMatch ]

\* matches = negate ? !rawMatch : rawMatch
ConditionResult(rawMatch, negate) ==
    [ threw |-> FALSE,
      matches |-> IF negate THEN ~rawMatch ELSE rawMatch,
      rawMatch |-> rawMatch ]

\* What evaluateCondition makes of the raw outcome m
ConditionOutcome(m, negate) ==
    [ result |-> IF m.threw THEN Thrown ELSE ConditionResult(m.raw, negate),
      cache |-> m.cache, lookup |-> m.lookup ]

\* evaluateCondition(condition, attrs), with the cache it finds and leaves
evaluateCondition(condition, attrs, cache) ==
    ConditionOutcome(RawMatchOf(condition, attrs, cache), condition.negate)

\* The conditions of a format evaluated in order from position i on; e is
\* the evaluation of the one at i
RECURSIVE EvaluateConditionsFrom(_, _, _, _, _)
RECURSIVE EvaluateConditionsAfter(_, _, _, _, _)
EvaluateConditionsAfter(conditions, i, attrs, results, e) ==
    IF e.result.threw
    THEN [threw |-> TRUE, results |-> results, cache |-> e.cache]
    ELSE EvaluateConditionsFrom(conditions, i + 1, attrs, e.cache,
             Append(results, [condition |-> conditions[i], result |-> e.result]))

EvaluateConditionsFrom(conditions, i, attrs, cache, results) ==
    IF i > Len(conditions)
    THEN [threw |-> FALSE, results |-> results, cache |-> cache]
    ELSE EvaluateConditionsAfter(conditions, i, attrs, results,
                                 evaluateCondition(conditions[i], attrs, cache))

\* Mutant: some optional condition has to match also when there is none
FormatMatches_OptionalNeeded(conditionResults) ==
    /\ \A i \in 1..Len(conditionResults) :
           conditionResults[i].condition.required => conditionResults[i].result.matches
    /\ \E i \in 1..Len(conditionResults) :
           ~conditionResults[i].condition.required /\ conditionResults[i].result.matches

\* All required conditions match and, when there are optional ones, one of
\* them does
FormatMatches(conditionResults) ==
    LET isRequired(r) == r.condition.required
        isOptional(r) == ~r.condition.required
        required == SelectSeq(conditionResults, isRequired)
        optional == SelectSeq(conditionResults, isOptional)
    IN  /\ \A i \in 1..Len(required) : required[i].result.matches
        /\ Len(optional) = 0 \/ \E i \in 1..Len(optional) : optional[i].result.matches

\* What evaluateFormat makes of the evaluations e of the conditions
FormatOutcome(e) ==
    [ result |-> IF e.threw THEN Thrown
                 ELSE [threw |-> FALSE,
                       matches |-> FormatMatches(e.results),
                       conditionResults |-> e.results],
      cache |-> e.cache ]

\* evaluateFormat(format, attrs), with the cache it finds and leaves
evaluateFormat(format, attrs, cache) ==
    FormatOutcome(EvaluateConditionsFrom(format.conditions, 1, attrs, cache, <<>>))

----------------------------------------------------------------------------
(* The library formats with their conditions, and the parser's attributes  *)
(* for the known release names.                                            *)

\* Conditions of the library formats, by format id
FORMAT_CONDITIONS ==
    ( "1080p-webdl" :>
        << [ name |-> "1080p", type |-> "resolution", resolution |-> "1080p",
             required |-> TRUE, negate |-> FALSE ],
           [ name |-> "WEB-DL", type |-> "source", source |-> "webdl",
             required |-> TRUE, negate |-> FALSE ] >> )
    @@ ( "hdr-custom-a" :>
        << [ name |-> "HLG", type |-> "hdr", hdr |-> Some("hlg"),
             required |-> TRUE, negate |-> FALSE ] >> )
    @@ ( "hdr-generic" :>
        << [ name |-> "HDR", type |-> "release_title", pattern |-> "\\bHDR\\b",
             required |-> TRUE, negate |-> FALSE ] >> )
    @@ ( "hdr-custom-b" :>
        << [ name |-> "PQ", type |-> "hdr", hdr |-> Some("pq"),
             required |-> TRUE, negate |-> FALSE ] >> )
    @@ ( "hdr-hdr10" :>
        << [ name |-> "HDR10", type |-> "hdr", hdr |-> Some("hdr10"),
             required |-> TRUE, negate |-> FALSE ] >> )
    @@ ( "hdr-dolby-vision" :>
        << [ name |-> "Dolby Vision", type |-> "hdr", hdr |-> Some("dolby-vision"),
             required |-> TRUE, negate |-> FALSE ] >> )
    @@ ( "banned-cam" :>
        << [ name |-> "CAM Source", type |-> "source", source |-> "cam",
             required |-> FALSE, negate |-> FALSE ],
           [ name |-> "CAM Title", type |-> "release_title", pattern |-> "\\bCAM\\b",
             required |-> FALSE, negate |-> FALSE ] >> )
    @@ ( "group-yts" :>
        << [ name |-> "YTS", type |-> "release_group",
             pattern |-> "^YTS(\\.MX|\\.LT|\\.AG)?$",
             required |-> FALSE, negate |-> FALSE ],
           [ name |-> "YTS Title", type |-> "release_title",
             pattern |-> "\\bYTS(\\.MX|\\.LT|\\.AG)?\\b",
             required |-> FALSE, negate |-> FALSE ] >> )
    @@ ( "other-remux" :>
        << [ name |-> "Remux", type |-> "flag", flag |-> "isRemux",
             required |-> TRUE, negate |-> FALSE ] >> )

\* A library format as the matcher sees it: with its conditions
WithConditions(format) ==
    [ id |-> format.id, name |-> format.name, category |-> format.category,
      conditions |-> FORMAT_CONDITIONS[format.id] ]

\* The formats of the library from position i on that match the attributes:
\* their ids, and the cache as the evaluations leave it
RECURSIVE MatchFormatsFrom(_, _, _, _, _)
RECURSIVE MatchFormatsAfter(_, _, _, _, _)
MatchFormatsAfter(formats, i, attrs, ids, e) ==
    IF e.result.threw THEN [threw |-> TRUE, ids |-> ids, cache |-> e.cache]
    ELSE MatchFormatsFrom(formats, i + 1, attrs, e.cache,
             IF e.result.matches THEN ids \cup {formats[i].id} ELSE ids)

MatchFormatsFrom(formats, i, attrs, cache, ids) ==
    IF i > Len(formats) THEN [threw |-> FALSE, ids |-> ids, cache |-> cache]
    ELSE MatchFormatsAfter(formats, i, attrs, ids,
                           evaluateFormat(WithConditions(formats[i]), attrs, cache))

\* matchFormats(attrs, formats) on attributes as the parser gives them: the
\* ids of the formats that match
matchFormatIds(attrs, formats, cache) == MatchFormatsFrom(formats, 1, attrs, cache, {})

\* parser.parse then extractAttributes, for the known release names
parseAttributes(releaseName) ==
    CASE releaseName = "Movie.2024.1080p.WEB-DL.DD5.1.H.264-GROUP" ->
             Attrs(releaseName, "1080p", "webdl", None, Some("GROUP"),
                   Some(FALSE), Some(FALSE))
      [] releaseName = "Show.S01E01.1080p.WEB-DL.x264-GROUP" ->
             Attrs(releaseName, "1080p", "webdl", None, Some("GROUP"),
                   Some(FALSE), Some(FALSE))
      [] releaseName = "Show.S01E02.1080p.WEB-DL.x264-GROUP" ->
             Attrs(releaseName, "1080p", "webdl", None, Some("GROUP"),
                   Some(FALSE), Some(FALSE))
      [] releaseName = "Movie.2024.1080p.BluRay.x264-YTS.MX" ->
             Attrs(releaseName, "1080p", "bluray", None, Some("YTS.MX"),
                   Some(FALSE), Some(FALSE))
      [] releaseName = "Movie.2024.2160p.WEB-DL.DV.HDR.DDP5.1-GROUP" ->
             Attrs(releaseName, "2160p", "webdl", Some("dolby-vision"), Some("GROUP"),
                   Some(FALSE), Some(FALSE))
      [] releaseName = "Movie.2024.CAM.x264-GROUP" ->
             Attrs(releaseName, "unknown", "cam", None, Some("GROUP"),
                   Some(FALSE), Some(FALSE))
      [] releaseName = "Movie.2024.1080p.WEB-DL.CAM-YTS" ->
             Attrs(releaseName, "1080p", "webdl", None, Some("YTS"),
                   Some(FALSE), Some(FALSE))
      [] OTHER ->
             Attrs(releaseName, "unknown", "unknown", None, None, None, None)

----------------------------------------------------------------------------
(* The scoring profiles the calls are made with.  They are arguments, not  *)
(* the profiles the application ships: between them they set and leave out *)
(* each optional field, score formats on, just above and below the ban     *)
(* score, and leave formats without an entry.                              *)

QualityProfile ==
    [ id |-> "quality", name |-> "Quality",
      formatScores |-> ("1080p-webdl" :> 1000) @@ ("hdr-dolby-vision" :> 500)
                       @@ ("hdr-hdr10" :> 300) @@ ("hdr-generic" :> 100)
                       @@ ("hdr-custom-a" :> 50) @@ ("banned-cam" :> -999999)
                       @@ ("group-yts" :> -200),
      minScore |-> Some(0),
      movieMinSizeGb |-> Some(1), movieMaxSizeGb |-> Some(40),
      episodeMinSizeMb |-> Some(100), episodeMaxSizeMb |-> Some(800),
      allowedProtocols |-> None ]

CompactProfile ==
    [ id |-> "compact", name |-> "Compact",
      formatScores |-> ("1080p-webdl" :> 600) @@ ("group-yts" :> 400)
                       @@ ("banned-cam" :> -1000000) @@ ("hdr-generic" :> -50)
                       @@ ("hdr-dolby-vision" :> -100),
      minScore |-> Some(500),
      movieMinSizeGb |-> Some(1), movieMaxSizeGb |-> None,
      episodeMinSizeMb |-> None, episodeMaxSizeMb |-> Some(800),
      allowedProtocols |-> Some(<<"usenet">>) ]

StreamerProfile ==
    [ id |-> "streamer", name |-> "Streamer",
      formatScores |-> ("1080p-webdl" :> 200) @@ ("hdr-custom-a" :> -999999)
                       @@ ("hdr-custom-b" :> 10) @@ ("hdr-generic" :> 20),
      minScore |-> None,
      movieMinSizeGb |-> None, movieMaxSizeGb |-> None,
      episodeMinSizeMb |-> None, episodeMaxSizeMb |-> None,
      allowedProtocols |-> Some(<<>>) ]

StrictProfile ==
    [ id |-> "strict", name |-> "Strict",
      formatScores |-> ("1080p-webdl" :> 1000) @@ ("banned-cam" :> -999998)
                       @@ ("group-yts" :> 300) @@ ("other-remux" :> 150),
      minScore |-> Some(1200),
      movieMinSizeGb |-> None, movieMaxSizeGb |-> Some(40),
      episodeMinSizeMb |-> Some(100), episodeMaxSizeMb |-> None,
      allowedProtocols |-> Some(<<"torrent", "usenet">>) ]

PROFILES == {QualityProfile, CompactProfile, StreamerProfile, StrictProfile}

----------------------------------------------------------------------------
(* Size and protocol arguments *)

KiBPerMb == 1024

KiBPerGb == 1048576

Mb(n) == n * KiBPerMb

Gb(n) == n * KiBPerGb

\* fileSizeBytes: undefined, zero, negative, and sizes on and around the limits
FileSizes ==
    { None, Some(0), Some(-1), Some(Mb(50)), Some(Mb(100)), Some(Mb(800)),
      Some(Gb(1)), Some(Mb(8000)), Some(Gb(10)), Some(Gb(50)) }

EpisodeCounts == {None, Some(-2), Some(0), Some(1), Some(10)}

\* SizeValidationContext, or undefined
SizeContexts ==
    {None}
    \cup {Some([mediaType |-> "movie", isSeasonPack |-> None, episodeCount |-> None])}
    \cup {Some([mediaType |-> "tv", isSeasonPack |-> p, episodeCount |-> c]) :
              p \in {None, Some(FALSE), Some(TRUE)}, c \in EpisodeCounts}

Protocols == {None, Some("torrent"), Some("usenet"), Some("streaming")}

----------------------------------------------------------------------------
(* scorer.ts: mutual exclusivity, score lookup, breakdown *)

\* A score at or below this bans the release
BAN_SCORE == -999999

\* HDR format priority order (most specific/best first)
HDR_PRIORITY ==
    << "hdr-dolby-vision", "hdr-dolby-vision-no-fallback", "hdr-hdr10plus",
       "hdr-hdr10", "hdr10-missing", "hdr-generic", "hdr-hlg", "hdr-pq",
       "hdr-missing", "hdr-sdr" >>

\* The priority given to an hdr format that is not in HDR_PRIORITY
UNLISTED_PRIORITY == 100

IsHdr(mf) == mf.format.category = "hdr"

NotHdr(mf) == mf.format.category # "hdr"

\* Mutant: the index used as it comes, -1 for an unlisted id
EffectivePriority_RawIndex(mf) == IndexOf(HDR_PRIORITY, mf.format.id)

\* priority === -1 ? 100 : priority
EffectivePriority(mf) ==
    LET priority == IndexOf(HDR_PRIORITY, mf.format.id)
    IN  IF priority = -1 THEN UNLISTED_PRIORITY ELSE priority

\* The loop of applyMutualExclusivity over hdrFormats from position i on.
\* best is [hdr, priority]; bestHdr = null with bestPriority = Infinity is
\* None, below which every effective priority lies.
RECURSIVE BestHdrFrom(_, _, _)
BestHdrFrom(hdrFormats, i, best) ==
    IF i > Len(hdrFormats) THEN best
    ELSE LET hdr == hdrFormats[i]
             effectivePriority == EffectivePriority(hdr)
         IN  IF best = None \/ effectivePriority < best[1].priority
             THEN BestHdrFrom(hdrFormats, i + 1,
                              Some([hdr |-> hdr, priority |-> effectivePriority]))
             ELSE BestHdrFrom(hdrFormats, i + 1, best)

\* Mutant: the hdr format moved behind the others also when it is the only one
applyMutualExclusivity_SingleHdrMoved(matchedFormats, profile) ==
    LET hdrFormats == SelectSeq(matchedFormats, IsHdr)
        otherFormats == SelectSeq(matchedFormats, NotHdr)
    IN  IF Len(hdrFormats) > 0
        THEN LET best == BestHdrFrom(hdrFormats, 1, None)
             IN  IF best # None THEN Append(otherFormats, best[1].hdr)
                 ELSE otherFormats
        ELSE matchedFormats

applyMutualExclusivity(matchedFormats, profile) ==
    LET hdrFormats == SelectSeq(matchedFormats, IsHdr)
        otherFormats == SelectSeq(matchedFormats, NotHdr)
    IN  IF Len(hdrFormats) > 1
        THEN LET best == BestHdrFrom(hdrFormats, 1, None)
             IN  IF best # None THEN Append(otherFormats, best[1].hdr)
                 ELSE otherFormats
        ELSE matchedFormats

\* profile.formatScores[id] ?? 0
FormatScore(profile, id) ==
    IF id \in DOMAIN profile.formatScores THEN profile.formatScores[id] ELSE 0

calculateFormatScores(matchedFormats, profile) ==
    [i \in 1..Len(matchedFormats) |->
        [format |-> matchedFormats[i].format,
         score |-> FormatScore(profile, matchedFormats[i].format.id)]]

BreakdownKeys ==
    { "resolution", "source", "codec", "audio", "hdr", "streaming",
      "releaseGroupTier", "banned", "enhancement" }

\* Mutant: micro and low_quality left out of the mapping
categoryToBreakdownKey_OwnNameOnly(category) ==
    CASE category \in { "resolution", "source", "codec", "audio", "hdr",
                        "streaming", "enhancement", "banned" } -> Some(category)
      [] category = "release_group_tier" -> Some("releaseGroupTier")
      [] OTHER -> None

\* null is None
categoryToBreakdownKey(category) ==
    CASE category \in { "resolution", "source", "codec", "audio", "hdr",
                        "streaming", "enhancement", "banned" } -> Some(category)
      [] category \in {"release_group_tier", "micro", "low_quality"} ->
             Some("releaseGroupTier")
      [] OTHER -> None

RECURSIVE BuildBreakdownFrom(_, _, _)
BuildBreakdownFrom(scoredFormats, i, breakdown) ==
    IF i > Len(scoredFormats) THEN breakdown
    ELSE LET mf == scoredFormats[i]
             breakdownKey == categoryToBreakdownKey(mf.format.category)
         IN  IF breakdownKey # None
             THEN BuildBreakdownFrom(scoredFormats, i + 1,
                      [breakdown EXCEPT
                          ![breakdownKey[1]] =
                              [score |-> @.score + mf.score,
                               formats |-> Append(@.formats, mf.format.name)]])
             ELSE BuildBreakdownFrom(scoredFormats, i + 1, breakdown)

\* Mutant: one breakdown object kept between the calls, so a call adds to
\* what the remembered call left in it
EmptyBreakdown_Shared ==
    IF memo = None THEN [key \in BreakdownKeys |-> [score |-> 0, formats |-> <<>>]]
    ELSE memo[1].res.breakdown

\* const breakdown: ScoreBreakdown = { resolution: { score: 0, formats: [] }, ... },
\* made anew in every call
EmptyBreakdown == [key \in BreakdownKeys |-> [score |-> 0, formats |-> <<>>]]

buildBreakdown(scoredFormats) == BuildBreakdownFrom(scoredFormats, 1, EmptyBreakdown)

----------------------------------------------------------------------------
(* scorer.ts: scoreRelease *)

\* Mutant: the first scored format left out of the sum
TotalOf_SkipFirst(scoredFormats) ==
    SumSeq([i \in 2..Len(scoredFormats) |-> scoredFormats[i].score])

\* scoredFormats.reduce((sum, f) => sum + f.score, 0)
TotalOf(scoredFormats) ==
    SumSeq([i \in 1..Len(scoredFormats) |-> scoredFormats[i].score])

\* Mutant: the ban threshold taken strictly
IsBanScore_Strict(score) == score < BAN_SCORE

\* f.score <= -999999
IsBanScore(score) == score <= BAN_SCORE

HasBanScore(f) == IsBanScore(f.score)

\* scoredFormats.filter((f) => f.score <= -999999).map((f) => f.format.name)
BannedReasonsOf(scoredFormats) ==
    LET banned == SelectSeq(scoredFormats, HasBanScore)
    IN  [i \in 1..Len(banned) |-> banned[i].format.name]

NotRejected == [rejected |-> FALSE, reason |-> None]

\* Mutant: the rejection set and its reason left undefined
Rejected_NoReason(text, figure, limit) == [rejected |-> TRUE, reason |-> None]

Rejected(text, figure, limit) ==
    [rejected |-> TRUE,
     reason |-> Some([text |-> text, figure |-> figure, limit |-> limit])]

\* Mutant: a movie held against the episode limits (in MB)
MovieSizeCheck_EpisodeLimits(profile, fileSize) ==
    LET minSize == profile.episodeMinSizeMb
        maxSize == profile.episodeMaxSizeMb
    IN  IF minSize # None /\ fileSize < minSize[1] * KiBPerMb
        THEN Rejected("Movie size is below minimum", <<fileSize, KiBPerMb>>, minSize[1])
        ELSE IF maxSize # None /\ fileSize > maxSize[1] * KiBPerMb
        THEN Rejected("Movie size exceeds maximum", <<fileSize, KiBPerMb>>, maxSize[1])
        ELSE NotRejected

\* Movie validation (in GB): fileSizeGb = fileSizeBytes / 1024^3 is the
\* quotient fileSize / KiBPerGb, compared by cross-multiplication.
MovieSizeCheck(profile, fileSize) ==
    LET minSize == profile.movieMinSizeGb
        maxSize == profile.movieMaxSizeGb
    IN  IF minSize # None /\ fileSize < minSize[1] * KiBPerGb
        THEN Rejected("Movie size is below minimum", <<fileSize, KiBPerGb>>, minSize[1])
        ELSE IF maxSize # None /\ fileSize > maxSize[1] * KiBPerGb
        THEN Rejected("Movie size exceeds maximum", <<fileSize, KiBPerGb>>, maxSize[1])
        ELSE NotRejected

\* Mutant: a season pack of unknown episode count checked as one episode
EffectiveSizeMb_NoSkip(fileSize, sizeContext) ==
    IF Truthy(sizeContext.isSeasonPack)
       /\ sizeContext.episodeCount # None /\ sizeContext.episodeCount[1] > 0
    THEN [num |-> fileSize, den |-> KiBPerMb * sizeContext.episodeCount[1]]
    ELSE [num |-> fileSize, den |-> KiBPerMb]

\* Mutant: the size of a season pack never divided by the episode count
EffectiveSizeMb_Undivided(fileSize, sizeContext) ==
    IF Truthy(sizeContext.isSeasonPack)
       /\ (sizeContext.episodeCount = None \/ sizeContext.episodeCount[1] <= 0)
    THEN [num |-> -1, den |-> 1]
    ELSE [num |-> fileSize, den |-> KiBPerMb]

\* effectiveSizeMb as the quotient num / den; -1 is the skip signal
EffectiveSizeMb(fileSize, sizeContext) ==
    IF Truthy(sizeContext.isSeasonPack)
    THEN IF sizeContext.episodeCount = None
            \/ sizeContext.episodeCount[1] = 0
            \/ sizeContext.episodeCount[1] <= 0
         THEN [num |-> -1, den |-> 1]
         ELSE [num |-> fileSize, den |-> KiBPerMb * sizeContext.episodeCount[1]]
    ELSE [num |-> fileSize, den |-> KiBPerMb]

\* TV validation (in MB per episode)
TvSizeCheck(profile, fileSize, sizeContext) ==
    LET minSizeMb == profile.episodeMinSizeMb
        maxSizeMb == profile.episodeMaxSizeMb
        eff == EffectiveSizeMb(fileSize, sizeContext)
        perEp == IF Truthy(sizeContext.isSeasonPack) THEN " per episode (avg)" ELSE ""
    IN  IF eff.num > 0
        THEN IF minSizeMb # None /\ eff.num < minSizeMb[1] * eff.den
             THEN Rejected("Episode size" \o perEp \o " is below minimum",
                           <<eff.num, eff.den>>, minSizeMb[1])
             ELSE IF maxSizeMb # None /\ eff.num > maxSizeMb[1] * eff.den
             THEN Rejected("Episode size" \o perEp \o " exceeds maximum",
                           <<eff.num, eff.den>>, maxSizeMb[1])
             ELSE NotRejected
        ELSE NotRejected

\* Mutant: a size of zero or below checked like any other
SizeCheck_AnySize(profile, fileSizeBytes, sizeContext) ==
    IF fileSizeBytes # None /\ sizeContext # None
    THEN IF sizeContext[1].mediaType = "movie"
         THEN MovieSizeCheck(profile, fileSizeBytes[1])
         ELSE IF sizeContext[1].mediaType = "tv"
         THEN TvSizeCheck(profile, fileSizeBytes[1], sizeContext[1])
         ELSE NotRejected
    ELSE NotRejected

\* 7. Check file size limits (media-specific)
SizeCheck(profile, fileSizeBytes, sizeContext) ==
    IF fileSizeBytes # None /\ fileSizeBytes[1] > 0 /\ sizeContext # None
    THEN IF sizeContext[1].mediaType = "movie"
         THEN MovieSizeCheck(profile, fileSizeBytes[1])
         ELSE IF sizeContext[1].mediaType = "tv"
         THEN TvSizeCheck(profile, fileSizeBytes[1], sizeContext[1])
         ELSE NotRejected
    ELSE NotRejected

SeqIncludes(s, x) == \E i \in 1..Len(s) : s[i] = x

\* Mutant: an empty allow-list taken as allowing nothing
ProtocolCheck_EmptyAllowsNothing(profile, protocol) ==
    IF protocol # None /\ profile.allowedProtocols # None
       /\ ~SeqIncludes(profile.allowedProtocols[1], protocol[1])
    THEN [rejected |-> TRUE,
          reason |-> Some([protocol |-> protocol[1],
                           accepts |-> profile.allowedProtocols[1]])]
    ELSE NotRejected

\* 8. Check protocol restrictions
ProtocolCheck(profile, protocol) ==
    IF protocol # None /\ profile.allowedProtocols # None
       /\ Len(profile.allowedProtocols[1]) > 0
       /\ ~SeqIncludes(profile.allowedProtocols[1], protocol[1])
    THEN [rejected |-> TRUE,
          reason |-> Some([protocol |-> protocol[1],
                           accepts |-> profile.allowedProtocols[1]])]
    ELSE NotRejected

\* profile.minScore ?? 0
MinScoreOf(profile) == IF profile.minScore # None THEN profile.minScore[1] ELSE 0

\* Mutant: the protocol rejection left out of the verdict
MeetsMinimum_NoProtocol(isBanned, sizeRejected, protocolRejected, totalScore, profile) ==
    ~isBanned /\ ~sizeRejected /\ totalScore >= MinScoreOf(profile)

\* 9. Determine if release meets minimum quality threshold
MeetsMinimum(isBanned, sizeRejected, protocolRejected, totalScore, profile) ==
    ~isBanned /\ ~sizeRejected /\ ~protocolRejected /\ totalScore >= MinScoreOf(profile)

\* Mutant: the arithmetic sum returned also for a banned release
ReturnedTotal_Sum(isBanned, totalScore) == Num(totalScore)

\* totalScore: isBanned ? -Infinity : totalScore
ReturnedTotal(isBanned, totalScore) == IF isBanned THEN NegInf ELSE Num(totalScore)

\* Mutant: a banned release returned without looking at size and protocol
scoreRelease_BannedSkipsGates(releaseName, profile, attributes, fileSizeBytes, sizeContext, protocol) ==
    LET attrs == IF attributes # None THEN attributes[1] ELSE parseRelease(releaseName)
        matchedFormats == applyMutualExclusivity(matchFormats(attrs, ALL_FORMATS), profile)
        scoredFormats == calculateFormatScores(matchedFormats, profile)
        breakdown == buildBreakdown(scoredFormats)
        totalScore == TotalOf(scoredFormats)
        isBanned == \E i \in 1..Len(scoredFormats) : IsBanScore(scoredFormats[i].score)
        bannedReasons == BannedReasonsOf(scoredFormats)
        size == IF isBanned THEN NotRejected
                ELSE SizeCheck(profile, fileSizeBytes, sizeContext)
        proto == IF isBanned THEN NotRejected ELSE ProtocolCheck(profile, protocol)
    IN  [ releaseName |-> releaseName,
          profile |-> profile.name,
          totalScore |-> ReturnedTotal(isBanned, totalScore),
          matchedFormats |-> scoredFormats,
          breakdown |-> breakdown,
          meetsMinimum |-> MeetsMinimum(isBanned, size.rejected, proto.rejected,
                                        totalScore, profile),
          isBanned |-> isBanned,
          bannedReasons |-> bannedReasons,
          sizeRejected |-> size.rejected,
          sizeRejectionReason |-> size.reason,
          protocolRejected |-> proto.rejected,
          protocolRejectionReason |-> proto.reason ]

scoreRelease(releaseName, profile, attributes, fileSizeBytes, sizeContext, protocol) ==
    LET attrs == IF attributes # None THEN attributes[1] ELSE parseRelease(releaseName)
        matchedFormats == applyMutualExclusivity(matchFormats(attrs, ALL_FORMATS), profile)
        scoredFormats == calculateFormatScores(matchedFormats, profile)
        breakdown == buildBreakdown(scoredFormats)
        totalScore == TotalOf(scoredFormats)
        isBanned == \E i \in 1..Len(scoredFormats) : IsBanScore(scoredFormats[i].score)
        bannedReasons == BannedReasonsOf(scoredFormats)
        size == SizeCheck(profile, fileSizeBytes, sizeContext)
        proto == ProtocolCheck(profile, protocol)
    IN  [ releaseName |-> releaseName,
          profile |-> profile.name,
          totalScore |-> ReturnedTotal(isBanned, totalScore),
          matchedFormats |-> scoredFormats,
          breakdown |-> breakdown,
          meetsMinimum |-> MeetsMinimum(isBanned, size.rejected, proto.rejected,
                                        totalScore, profile),
          isBanned |-> isBanned,
          bannedReasons |-> bannedReasons,
          sizeRejected |-> size.rejected,
          sizeRejectionReason |-> size.reason,
          protocolRejected |-> proto.rejected,
          protocolRejectionReason |-> proto.reason ]

\* Mutant: the release scored as a movie that came by torrent
scoreSized_AsMovieByTorrent(releaseName, profile, attributes, sizeBytes) ==
    scoreRelease(releaseName, profile, attributes, sizeBytes,
                 Some([mediaType |-> "movie", isSeasonPack |-> None,
                       episodeCount |-> None]),
                 Some("torrent"))

\* scoreRelease(name, profile, attributes, sizeBytes), as compareReleases,
\* rankReleases, filterQualityReleases and isUpgrade call it: sizeContext and
\* protocol are left undefined
scoreSized(releaseName, profile, attributes, sizeBytes) ==
    scoreRelease(releaseName, profile, attributes, sizeBytes, None, None)

----------------------------------------------------------------------------
(* scorer.ts: rankReleases *)

IsRejected(r) == r.isBanned \/ r.sizeRejected \/ r.protocolRejected

\* The sign of a comparator's return value as Array.prototype.sort reads it:
\* NaN counts as 0.
SignOf(x) ==
    CASE x.k = "nan" -> 0
      [] x.k = "+inf" -> 1
      [] x.k = "-inf" -> -1
      [] OTHER -> IF x.v > 0 THEN 1 ELSE IF x.v < 0 THEN -1 ELSE 0

\* Mutant: the scores subtracted the other way round
RankCompare_Ascending(a, b) ==
    LET aRejected == IsRejected(a)
        bRejected == IsRejected(b)
    IN  IF aRejected /\ ~bRejected THEN 1
        ELSE IF ~aRejected /\ bRejected THEN -1
        ELSE SignOf(ExtSub(a.totalScore, b.totalScore))

\* The comparator of rankReleases
RankCompare(a, b) ==
    LET aRejected == IsRejected(a)
        bRejected == IsRejected(b)
    IN  IF aRejected /\ ~bRejected THEN 1
        ELSE IF ~aRejected /\ bRejected THEN -1
        ELSE SignOf(ExtSub(b.totalScore, a.totalScore))

\* Mutant: x takes the place of the element it ties with
InsertSorted_TieOverwrites(s, x) ==
    LET after == {i \in 1..Len(s) : RankCompare(s[i], x) <= 0}
        k == IF after = {} THEN 0 ELSE CHOOSE i \in after : \A j \in after : j <= i
    IN  IF k > 0 /\ RankCompare(s[k], x) = 0
        THEN SubSeq(s, 1, k - 1) \o <<x>> \o SubSeq(s, k + 1, Len(s))
        ELSE SubSeq(s, 1, k) \o <<x>> \o SubSeq(s, k + 1, Len(s))

\* x placed into the sorted sequence s behind every element it does not
\* have to precede
InsertSorted(s, x) ==
    LET after == {i \in 1..Len(s) : RankCompare(s[i], x) <= 0}
        k == IF after = {} THEN 0 ELSE CHOOSE i \in after : \A j \in after : j <= i
    IN  SubSeq(s, 1, k) \o <<x>> \o SubSeq(s, k + 1, Len(s))

\* Array.prototype.sort: a stable sort, here by insertion from the left
RECURSIVE SortFrom(_, _, _)
SortFrom(s, i, sorted) ==
    IF i > Len(s) THEN sorted ELSE SortFrom(s, i + 1, InsertSorted(sorted, s[i]))

RankSort(scored) == SortFrom(scored, 1, <<>>)

rankReleases(releases, profile) ==
    LET scored == [i \in 1..Len(releases) |->
                      scoreSized(releases[i].name, profile, releases[i].attributes,
                                 releases[i].sizeBytes)]
        sorted == RankSort(scored)
    IN  [i \in 1..Len(sorted) |-> [result |-> sorted[i], rank |-> i]]

----------------------------------------------------------------------------
(* scorer.ts: isUpgrade *)

\* Mutant: only a ban or a rejection bars the candidate, not the minimum
CandidateUnacceptable_NoMinimum(candidate) ==
    candidate.isBanned \/ candidate.sizeRejected \/ candidate.protocolRejected

\* Never upgrade to a banned, size-rejected, protocol-rejected, or
\* below-minimum release
CandidateUnacceptable(candidate) ==
    candidate.isBanned \/ candidate.sizeRejected \/ candidate.protocolRejected
        \/ ~candidate.meetsMinimum

\* Mutant: an equal score always counts
UpgradeDecision_AlwaysGe(improvement, minimumImprovement, allowSidegrade) ==
    ExtGe(improvement, Num(minimumImprovement))

\* allowSidegrade ? improvement >= minimumImprovement : improvement > minimumImprovement
UpgradeDecision(improvement, minimumImprovement, allowSidegrade) ==
    IF allowSidegrade
    THEN ExtGe(improvement, Num(minimumImprovement))
    ELSE ExtGt(improvement, Num(minimumImprovement))

isUpgrade(existingRelease, candidateRelease, profile, options) ==
    LET minimumImprovement ==
            IF options.minimumImprovement # None THEN options.minimumImprovement[1] ELSE 0
        allowSidegrade ==
            IF options.allowSidegrade # None THEN options.allowSidegrade[1] ELSE FALSE
        existing == scoreSized(existingRelease, profile, options.existingAttrs,
                               options.existingSizeBytes)
        candidate == scoreSized(candidateRelease, profile, options.candidateAttrs,
                                options.candidateSizeBytes)
        improvement == ExtSub(candidate.totalScore, existing.totalScore)
    IN  IF CandidateUnacceptable(candidate)
        THEN [isUpgrade |-> FALSE, improvement |-> Num(0),
              existing |-> existing, candidate |-> candidate]
        ELSE [isUpgrade |-> UpgradeDecision(improvement, minimumImprovement, allowSidegrade),
              improvement |-> improvement,
              existing |-> existing, candidate |-> candidate]

----------------------------------------------------------------------------
(* scorer.ts: compareReleases, filterQualityReleases *)

\* Mutant: a difference that is not negative gives the first release the win
CompareWinner_GeFirst(diff) ==
    IF ExtGe(diff, Num(0)) THEN "release1"
    ELSE IF ExtLt(diff, Num(0)) THEN "release2"
    ELSE "tie"

\* diff > 0 ? release1 : diff < 0 ? release2 : tie
CompareWinner(diff) ==
    IF ExtGt(diff, Num(0)) THEN "release1"
    ELSE IF ExtLt(diff, Num(0)) THEN "release2"
    ELSE "tie"

compareReleases(release1, release2, profile, attrs1, attrs2, size1Bytes, size2Bytes) ==
    LET score1 == scoreSized(release1, profile, attrs1, size1Bytes)
        score2 == scoreSized(release2, profile, attrs2, size2Bytes)
        diff == ExtSub(score1.totalScore, score2.totalScore)
    IN  [ winner |-> CompareWinner(diff),
          release1Score |-> score1,
          release2Score |-> score2,
          scoreDifference |-> ExtAbs(diff) ]

\* Mutant: the minimum left out of the filter
FilterKeeps_NoMinimum(r) == ~r.isBanned /\ ~r.sizeRejected /\ ~r.protocolRejected

\* r.meetsMinimum && !r.isBanned && !r.sizeRejected && !r.protocolRejected
FilterKeeps(r) ==
    r.meetsMinimum /\ ~r.isBanned /\ ~r.sizeRejected /\ ~r.protocolRejected

filterQualityReleases(releases, profile) ==
    LET scored == [i \in 1..Len(releases) |->
                      scoreSized(releases[i].name, profile, releases[i].attributes,
                                 releases[i].sizeBytes)]
    IN  SelectSeq(scored, FilterKeeps)

----------------------------------------------------------------------------
(* The state machine.  Init is a pending call of one exported operation    *)
(* with its arguments; the operation's action runs it and records what it  *)
(* returned.  A call of the matcher finds a cache that earlier calls may   *)
(* have filled.                                                            *)

\* scoreRelease is called with every match set under a few size / context /
\* protocol combinations, and with every such combination under the match
\* sets over CoreFormatIds.
CoreFormatIds == {"1080p-webdl", "hdr-custom-a", "banned-cam", "group-yts"}

CoreGates ==
    { [fileSizeBytes |-> None, sizeContext |-> None, protocol |-> None],
      [fileSizeBytes |-> Some(Gb(10)),
       sizeContext |-> Some([mediaType |-> "tv", isSeasonPack |-> Some(TRUE),
                             episodeCount |-> Some(10)]),
       protocol |-> Some("torrent")],
      [fileSizeBytes |-> Some(Gb(10)),
       sizeContext |-> Some([mediaType |-> "tv", isSeasonPack |-> Some(TRUE),
                             episodeCount |-> None]),
       protocol |-> None],
      [fileSizeBytes |-> Some(Mb(800)),
       sizeContext |-> Some([mediaType |-> "tv", isSeasonPack |-> Some(FALSE),
                             episodeCount |-> None]),
       protocol |-> Some("usenet")],
      [fileSizeBytes |-> Some(Gb(50)),
       sizeContext |-> Some([mediaType |-> "movie", isSeasonPack |-> None,
                             episodeCount |-> None]),
       protocol |-> Some("streaming")],
      [fileSizeBytes |-> Some(0),
       sizeContext |-> Some([mediaType |-> "movie", isSeasonPack |-> None,
                             episodeCount |-> None]),
       protocol |-> Some("torrent")] }

AllGates ==
    { [fileSizeBytes |-> fileSizeBytes, sizeContext |-> sizeContext, protocol |-> protocol] :
        fileSizeBytes \in FileSizes, sizeContext \in SizeContexts, protocol \in Protocols }

ScoreReleaseCall(profile, attributes, gate) ==
    [ releaseName |-> "Release", profile |-> profile,
      attributes |-> Some(attributes), fileSizeBytes |-> gate.fileSizeBytes,
      sizeContext |-> gate.sizeContext, protocol |-> gate.protocol ]

\* Longest list handed to rankReleases
MaxList == 3

RankInputs ==
    {[name |-> n, attributes |-> None, sizeBytes |-> None] : n \in RELEASE_NAMES}
    \cup { [name |-> "Movie.2024.1080p.WEB-DL.DD5.1.H.264-GROUP", attributes |-> None,
            sizeBytes |-> Some(Gb(50))],
           [name |-> "Movie.2024.1080p.BluRay.x264-YTS.MX", attributes |-> None,
            sizeBytes |-> Some(Mb(50))] }

RankReleasesCalls ==
    { [releases |-> releases, profile |-> profile] :
        releases \in UNION {[1..n -> RankInputs] : n \in 0..MaxList},
        profile \in PROFILES }

MinimumImprovements == {None, Some(-500), Some(0), Some(400)}

IsUpgradeCalls ==
    { [ existingRelease |-> e, candidateRelease |-> c, profile |-> profile,
        options |-> [ minimumImprovement |-> m, allowSidegrade |-> a,
                      existingAttrs |-> None, candidateAttrs |-> None,
                      existingSizeBytes |-> None, candidateSizeBytes |-> z ] ] :
        e \in RELEASE_NAMES, c \in RELEASE_NAMES, profile \in PROFILES,
        m \in MinimumImprovements, a \in {None, Some(FALSE), Some(TRUE)},
        z \in {None, Some(Gb(50))} }

\* Releases handed to evaluateCondition and evaluateFormat
ReleaseInputs ==
    { Attrs("Movie.2024.2160p.UHD.BluRay.REMUX.DV.HDR.TrueHD.Atmos.7.1-GROUP",
            "2160p", "bluray", Some("dolby-vision"), Some("GROUP"),
            Some(TRUE), Some(FALSE)),
      parseAttributes("Movie.2024.1080p.BluRay.x264-YTS.MX"),
      Attrs("Movie.2024", "1080p", "bluray", None, None, None, Some(FALSE)) }

\* createCondition: required and not negated unless said otherwise
ConditionBases ==
    { [name |-> "Test Condition", type |-> "resolution", resolution |-> "2160p",
       required |-> TRUE, negate |-> FALSE],
      [name |-> "Test Condition", type |-> "hdr", hdr |-> Some("dolby-vision"),
       required |-> TRUE, negate |-> FALSE],
      [name |-> "Test Condition", type |-> "hdr", hdr |-> None,
       required |-> TRUE, negate |-> FALSE],
      [name |-> "Test Condition", type |-> "release_title", pattern |-> "REMUX",
       required |-> TRUE, negate |-> FALSE],
      [name |-> "Test Condition", type |-> "release_title", pattern |-> "[invalid(",
       required |-> TRUE, negate |-> FALSE],
      [name |-> "Test Condition", type |-> "release_group",
       pattern |-> "^YTS(\\.MX|\\.LT|\\.AG)?$",
       required |-> TRUE, negate |-> FALSE],
      [name |-> "Test Condition", type |-> "release_group", pattern |-> "[invalid(",
       required |-> TRUE, negate |-> FALSE],
      [name |-> "Test Condition", type |-> "flag", flag |-> "isRemux",
       required |-> TRUE, negate |-> FALSE],
      [name |-> "Test Condition", type |-> "flag", flag |-> "isProper",
       required |-> TRUE, negate |-> FALSE] }

ConditionInputs ==
    {[c EXCEPT !.negate = n] : c \in ConditionBases, n \in BOOLEAN}

EvaluateConditionCalls ==
    {[condition |-> c, attrs |-> a] : c \in ConditionInputs, a \in ReleaseInputs}

\* Conditions the formats handed to evaluateFormat are made of
Resolution(resolution, required, negate) ==
    [name |-> "Test Condition", type |-> "resolution", resolution |-> resolution,
     required |-> required, negate |-> negate]

Source(source, required) ==
    [name |-> "Test Condition", type |-> "source", source |-> source,
     required |-> required, negate |-> FALSE]

Hdr(hdr, required) ==
    [name |-> "Test Condition", type |-> "hdr", hdr |-> Some(hdr),
     required |-> required, negate |-> FALSE]

Title(pattern, required) ==
    [name |-> "Test Condition", type |-> "release_title", pattern |-> pattern,
     required |-> required, negate |-> FALSE]

\* createFormat
TestFormat(conditions) ==
    [id |-> "test-format", name |-> "Test Format", category |-> "other",
     conditions |-> conditions]

FormatInputs ==
    { TestFormat(<<>>),
      TestFormat(<<Resolution("2160p", TRUE, FALSE), Source("bluray", TRUE)>>),
      TestFormat(<<Resolution("2160p", TRUE, FALSE), Source("webdl", TRUE)>>),
      TestFormat(<<Resolution("2160p", TRUE, FALSE), Hdr("dolby-vision", FALSE),
                   Hdr("hdr10", FALSE)>>),
      TestFormat(<<Resolution("1080p", TRUE, FALSE), Hdr("dolby-vision", FALSE)>>),
      TestFormat(<<Resolution("480p", FALSE, FALSE), Resolution("720p", FALSE, FALSE)>>),
      TestFormat(<<Resolution("480p", FALSE, FALSE), Resolution("2160p", FALSE, FALSE)>>),
      TestFormat(<<Resolution("2160p", TRUE, TRUE), Title("REMUX", FALSE)>>),
      TestFormat(<<Resolution("2160p", FALSE, TRUE)>>),
      TestFormat(<<Title("[invalid(", TRUE), Resolution("2160p", TRUE, FALSE)>>),
      WithConditions(ALL_FORMATS[7]),
      WithConditions(ALL_FORMATS[8]) }

EvaluateFormatCalls ==
    {[format |-> f, attrs |-> a] : f \in FormatInputs, a \in ReleaseInputs}

\* Patterns that may have been compiled before a call of the matcher
CachedPatternInputs == {"REMUX", "[invalid(", "^YTS(\\.MX|\\.LT|\\.AG)?$"}

\* The cache after the patterns of a set were compiled
CacheOf(patterns) == [p \in patterns |-> getCachedPattern(p, EmptyCache).regex]

InitialCaches == {CacheOf(patterns) : patterns \in SUBSET CachedPatternInputs}

CompareReleasesCalls ==
    { [ release1 |-> r1, release2 |-> r2, profile |-> profile,
        attrs1 |-> None, attrs2 |-> None, size1Bytes |-> z, size2Bytes |-> None ] :
        r1 \in RELEASE_NAMES, r2 \in RELEASE_NAMES, profile \in PROFILES,
        z \in {None, Some(Gb(50))} }

FilterQualityReleasesCalls ==
    { [releases |-> releases, profile |-> profile] :
        releases \in UNION {[1..n -> RankInputs] : n \in 0..MaxList},
        profile \in PROFILES }

\* The library in the opposite order
ReversedLibrary ==
    [i \in 1..Len(ALL_FORMATS) |-> ALL_FORMATS[Len(ALL_FORMATS) + 1 - i]]

\* applyMutualExclusivity is handed what matchFormats returns
ApplyMutualExclusivityCalls ==
    { [matchedFormats |-> matchFormats(attrs, library), profile |-> QualityProfile] :
        attrs \in AttrSpace, library \in {ALL_FORMATS, ReversedLibrary} }

\* One scored format of every category
ScoredSamples ==
    { [format |-> Format("1080p-webdl", "1080p WEB-DL", "resolution"), score |-> 1000],
      [format |-> Format("source-bluray", "BluRay", "source"), score |-> 1],
      [format |-> Format("codec-x265", "x265", "codec"), score |-> 2],
      [format |-> Format("audio-truehd", "TrueHD", "audio"), score |-> 4],
      [format |-> Format("hdr-hdr10", "HDR10", "hdr"), score |-> 8],
      [format |-> Format("streaming-nf", "Netflix", "streaming"), score |-> 16],
      [format |-> Format("enhancement-imax", "IMAX", "enhancement"), score |-> 32],
      [format |-> Format("banned-cam", "CAM", "banned"), score |-> -999999],
      [format |-> Format("group-yts", "YTS", "release_group_tier"), score |-> 64],
      [format |-> Format("micro-sample", "Micro", "micro"), score |-> 128],
      [format |-> Format("lq-sample", "Low Quality", "low_quality"), score |-> -256],
      [format |-> Format("other-remux", "Remux", "other"), score |-> 0 - 512] }

\* Longest list handed to buildBreakdown
MaxScored == 3

BuildBreakdownCalls ==
    { [scoredFormats |-> scoredFormats] :
        scoredFormats \in UNION {[1..n -> ScoredSamples] : n \in 0..MaxScored} }

Init ==
    /\ pc = "called"
    /\ res = None
    /\ lookup = "none"
    /\ memo = None
    /\ \/ /\ patternCache = EmptyCache
          /\ \/ /\ op = "scoreRelease"
                /\ \E profile \in PROFILES :
                      \/ \E attributes \in AttrSpace, gate \in CoreGates :
                             args = ScoreReleaseCall(profile, attributes, gate)
                      \/ \E attributes \in SUBSET CoreFormatIds, gate \in AllGates :
                             args = ScoreReleaseCall(profile, attributes, gate)
             \/ op = "rankReleases" /\ args \in RankReleasesCalls
             \/ op = "isUpgrade" /\ args \in IsUpgradeCalls
             \/ op = "compareReleases" /\ args \in CompareReleasesCalls
             \/ op = "filterQualityReleases" /\ args \in FilterQualityReleasesCalls
             \/ op = "applyMutualExclusivity" /\ args \in ApplyMutualExclusivityCalls
             \/ op = "buildBreakdown" /\ args \in BuildBreakdownCalls
       \/ /\ patternCache \in InitialCaches
          /\ \/ op = "evaluateCondition" /\ args \in EvaluateConditionCalls
             \/ op = "evaluateFormat" /\ args \in EvaluateFormatCalls

ScoreRelease ==
    /\ pc = "called"
    /\ op = "scoreRelease"
    /\ res' = Some(scoreRelease(args.releaseName, args.profile, args.attributes,
                                args.fileSizeBytes, args.sizeContext, args.protocol))
    /\ pc' = "returned"
    /\ UNCHANGED <<op, args, patternCache, lookup, memo>>

RankReleases ==
    /\ pc = "called"
    /\ op = "rankReleases"
    /\ res' = Some(rankReleases(args.releases, args.profile))
    /\ pc' = "returned"
    /\ UNCHANGED <<op, args, patternCache, lookup, memo>>

IsUpgrade ==
    /\ pc = "called"
    /\ op = "isUpgrade"
    /\ res' = Some(isUpgrade(args.existingRelease, args.candidateRelease,
                             args.profile, args.options))
    /\ pc' = "returned"
    /\ UNCHANGED <<op, args, patternCache, lookup, memo>>

CompareReleases ==
    /\ pc = "called"
    /\ op = "compareReleases"
    /\ res' = Some(compareReleases(args.release1, args.release2, args.profile,
                                   args.attrs1, args.attrs2,
                                   args.size1Bytes, args.size2Bytes))
    /\ pc' = "returned"
    /\ UNCHANGED <<op, args, patternCache, lookup, memo>>

FilterQualityReleases ==
    /\ pc = "called"
    /\ op = "filterQualityReleases"
    /\ res' = Some(filterQualityReleases(args.releases, args.profile))
    /\ pc' = "returned"
    /\ UNCHANGED <<op, args, patternCache, lookup, memo>>

ApplyMutualExclusivity ==
    /\ pc = "called"
    /\ op = "applyMutualExclusivity"
    /\ res' = Some(applyMutualExclusivity(args.matchedFormats, args.profile))
    /\ pc' = "returned"
    /\ UNCHANGED <<op, args, patternCache, lookup, memo>>

BuildBreakdown ==
    /\ pc = "called"
    /\ op = "buildBreakdown"
    /\ res' = Some(buildBreakdown(args.scoredFormats))
    /\ pc' = "returned"
    /\ UNCHANGED <<op, args, patternCache, lookup, memo>>

\* Calls counted after the remembered one
MaxBetween == 1

\* The remembered call after one more call that is not a repeat of it
AfterOther(m) ==
    IF m = None THEN None
    ELSE Some([m[1] EXCEPT !.between = IF @ < MaxBetween THEN @ + 1 ELSE @])

\* The call returns e.result and leaves the cache e.cache
Returns(e) ==
    /\ res' = Some(e.result)
    /\ patternCache' = e.cache

ConditionReturns(e) ==
    /\ Returns(e)
    /\ lookup' = e.lookup

EvaluateCondition ==
    /\ pc = "called"
    /\ op = "evaluateCondition"
    /\ ConditionReturns(evaluateCondition(args.condition, args.attrs, patternCache))
    /\ pc' = "returned"
    /\ memo' = AfterOther(memo)
    /\ UNCHANGED <<op, args>>

EvaluateFormat ==
    /\ pc = "called"
    /\ op = "evaluateFormat"
    /\ Returns(evaluateFormat(args.format, args.attrs, patternCache))
    /\ pc' = "returned"
    /\ memo' = AfterOther(memo)
    /\ UNCHANGED <<op, args, lookup>>

Next ==
    \/ ScoreRelease
    \/ RankReleases
    \/ IsUpgrade
    \/ CompareReleases
    \/ FilterQualityReleases
    \/ ApplyMutualExclusivity
    \/ BuildBreakdown
    \/ EvaluateCondition
    \/ EvaluateFormat

Spec == Init /\ [][Next]_vars

\* A scoreRelease / rankReleases / isUpgrade call has returned (its result is res[1])
Scored == pc = "returned" /\ op = "scoreRelease"

Ranked == pc = "returned" /\ op = "rankReleases"

Upgraded == pc = "returned" /\ op = "isUpgrade"

Compared == pc = "returned" /\ op = "compareReleases"

Filtered == pc = "returned" /\ op = "filterQualityReleases"

Excluded == pc = "returned" /\ op = "applyMutualExclusivity"

BrokenDown == pc = "returned" /\ op = "buildBreakdown"

Evaluated == pc = "returned" /\ op = "evaluateCondition"

FormatEvaluated == pc = "returned" /\ op = "evaluateFormat"

----------------------------------------------------------------------------
(* A session: calls of the matcher and of scoreRelease made one after the  *)
(* other in one process, sharing the pattern cache.  scoreRelease gets the *)
(* attributes of the release as the parser gives them (or as supplied) and *)
(* matches the library against them through the cache.                     *)

\* The size / context / protocol combinations of a session's scoreRelease calls
SessionGates ==
    { [fileSizeBytes |-> None, sizeContext |-> None, protocol |-> None],
      [fileSizeBytes |-> Some(Mb(800)),
       sizeContext |-> Some([mediaType |-> "tv", isSeasonPack |-> Some(FALSE),
                             episodeCount |-> None]),
       protocol |-> Some("usenet")],
      [fileSizeBytes |-> Some(Gb(10)),
       sizeContext |-> Some([mediaType |-> "tv", isSeasonPack |-> Some(TRUE),
                             episodeCount |-> Some(10)]),
       protocol |-> Some("torrent")] }

\* Release name and supplied attributes (None: left to the parser)
SessionReleases ==
    { [name |-> "Show.S01E01.1080p.WEB-DL.x264-GROUP", attributes |-> None],
      [name |-> "Show.S01E02.1080p.WEB-DL.x264-GROUP", attributes |-> None],
      [name |-> "Movie.2024.CAM.x264-GROUP", attributes |-> None],
      [name |-> "Movie.2024.2160p.WEB-DL.DV.HDR.DDP5.1-GROUP", attributes |-> None],
      [name |-> "Release",
       attributes |-> Some(parseAttributes("Show.S01E01.1080p.WEB-DL.x264-GROUP"))],
      [name |-> "Movie.2024.CAM.x264-GROUP",
       attributes |-> Some(parseAttributes("Show.S01E01.1080p.WEB-DL.x264-GROUP"))] }

SessionProfiles == {QualityProfile, CompactProfile}

SessionScoreCalls ==
    { [ releaseName |-> r.name, profile |-> profile, attributes |-> r.attributes,
        fileSizeBytes |-> gate.fileSizeBytes, sizeContext |-> gate.sizeContext,
        protocol |-> gate.protocol ] :
        r \in SessionReleases, profile \in SessionProfiles, gate \in SessionGates }

\* The calls a session remembers when one of them is its first scoreRelease
\* call: those for a single episode
MemoCalls ==
    {call \in SessionScoreCalls :
        call.sizeContext # None /\ call.sizeContext[1].isSeasonPack = Some(FALSE)}

NoArgs == [none |-> TRUE]

\* Mutant: the supplied attributes ignored, the name always parsed
AttributesOf_AlwaysParse(call) == parseAttributes(call.releaseName)

\* const attrs = attributes ?? parseRelease(releaseName), as the parser gives them
AttributesOf(call) ==
    IF call.attributes # None THEN call.attributes[1]
    ELSE parseAttributes(call.releaseName)

\* scoreRelease on the formats m that the matcher found
ScoreOutcome(call, m) ==
    [ result |-> IF m.threw THEN Thrown
                 ELSE scoreRelease(call.releaseName, call.profile, Some(m.ids),
                                   call.fileSizeBytes, call.sizeContext,
                                   call.protocol),
      cache |-> m.cache ]

\* scoreRelease in a session: the library matched through the cache
scoreReleaseWithCache(call, cache) ==
    ScoreOutcome(call, matchFormatIds(AttributesOf(call), ALL_FORMATS, cache))

\* The calls a session is made of: a few of the matcher's, which fill the
\* cache, and the scoreRelease calls
SessionConditionCalls ==
    {call \in EvaluateConditionCalls :
        /\ call.condition.type \in {"release_title", "release_group"}
        /\ ~call.condition.negate
        /\ call.attrs.releaseGroup = Some("YTS.MX")}

SessionFormatCalls ==
    {call \in EvaluateFormatCalls :
        /\ call.format \in {WithConditions(ALL_FORMATS[7]), WithConditions(ALL_FORMATS[8])}
        /\ call.attrs.releaseGroup = Some("YTS.MX")}

SessionInit ==
    /\ pc = "idle"
    /\ op = "none"
    /\ args = NoArgs
    /\ res = None
    /\ patternCache = EmptyCache
    /\ lookup = "none"
    /\ memo = None

\* The next call of the session is made
SessionCall ==
    /\ pc \in {"idle", "returned"}
    /\ \/ op' = "evaluateCondition" /\ args' \in SessionConditionCalls
       \/ op' = "evaluateFormat" /\ args' \in SessionFormatCalls
       \/ op' = "scoreRelease" /\ args' \in SessionScoreCalls
       \/ op' = "clearPatternCache" /\ args' = NoArgs
    /\ pc' = "called"
    /\ res' = None
    /\ lookup' = "none"
    /\ UNCHANGED <<patternCache, memo>>

ClearPatternCache ==
    /\ pc = "called"
    /\ op = "clearPatternCache"
    /\ patternCache' = EmptyCache
    /\ pc' = "returned"
    /\ memo' = AfterOther(memo)
    /\ UNCHANGED <<op, args, res, lookup>>

ScoreReleaseInSession ==
    /\ pc = "called"
    /\ op = "scoreRelease"
    /\ Returns(scoreReleaseWithCache(args, patternCache))
    /\ memo' = IF memo = None
               THEN IF args \in MemoCalls
                    THEN Some([args |-> args, res |-> res'[1], between |-> 0])
                    ELSE None
               ELSE IF args = memo[1].args THEN memo
               ELSE AfterOther(memo)
    /\ pc' = "returned"
    /\ UNCHANGED <<op, args, lookup>>

SessionNext ==
    \/ SessionCall
    \/ EvaluateCondition
    \/ EvaluateFormat
    \/ ClearPatternCache
    \/ ScoreReleaseInSession

SessionSpec == SessionInit /\ [][SessionNext]_vars

----------------------------------------------------------------------------
(* Claims about scoreRelease *)

\* What the profile of the call gives a format id: its entry, 0 without one
ProfileScore(id) ==
    IF id \in DOMAIN args.profile.formatScores THEN args.profile.formatScores[id] ELSE 0

\* The formats of the returned result, i.e. those that survived exclusivity
Survivors == {res[1].matchedFormats[i].format : i \in 1..Len(res[1].matchedFormats)}

\* C1: whenever scoreRelease returns isBanned = true, the returned totalScore
\* is -Infinity, whatever the other matched formats score and whatever size,
\* size context and protocol were passed.
C1_BannedTotalIsNegInfinity ==
    Scored => (res[1].isBanned => res[1].totalScore = NegInf)

\* C1 witness: a banned result whose other matched formats score positively,
\* scored with a size, a size context and a protocol.
C1_Witness ==
    /\ Scored
    /\ res[1].isBanned
    /\ \E f \in Survivors : ProfileScore(f.id) > 0
    /\ args.fileSizeBytes # None /\ args.sizeContext # None /\ args.protocol # None

\* C2: meetsMinimum is true exactly when the release is not banned, not
\* size-rejected, not protocol-rejected and its total score is at least the
\* profile's minScore (0 for a profile that sets none); so meetsMinimum
\* implies that none of the three rejections is set.
C2_MeetsMinimumExactly ==
    Scored =>
        LET r == res[1]
            minScore == IF args.profile.minScore = None THEN 0
                        ELSE args.profile.minScore[1]
        IN  /\ r.meetsMinimum <=>
                  (/\ ~r.isBanned /\ ~r.sizeRejected /\ ~r.protocolRejected
                   /\ r.totalScore.k = "num" /\ r.totalScore.v >= minScore)
            /\ r.meetsMinimum => (~r.isBanned /\ ~r.sizeRejected /\ ~r.protocolRejected)

\* C2 witness: a release that scores above the minimum and is refused only
\* because its protocol is not allowed.
C2_Witness ==
    /\ Scored
    /\ ~res[1].meetsMinimum
    /\ res[1].protocolRejected /\ ~res[1].isBanned /\ ~res[1].sizeRejected
    /\ args.profile.minScore # None
    /\ res[1].totalScore.k = "num" /\ res[1].totalScore.v > args.profile.minScore[1]

\* C3: isBanned is true exactly when a format that survived exclusivity
\* resolution has a profile score of -999999 or less; bannedReasons lists the
\* names of exactly those formats; no positive score lifts the ban.
C3_BannedExactly ==
    Scored =>
        LET r == res[1]
            banning == {f \in Survivors : ProfileScore(f.id) <= -999999}
        IN  /\ r.isBanned <=> banning # {}
            /\ {r.bannedReasons[i] : i \in 1..Len(r.bannedReasons)}
                   = {f.name : f \in banning}
            /\ Len(r.bannedReasons) = Cardinality(banning)

\* C3 witness: a banned result whose matched scores add up to more than
\* -999999, because another matched format scores positively.
C3_Witness ==
    /\ Scored
    /\ res[1].isBanned
    /\ Len(res[1].bannedReasons) = 1
    /\ SumSeq([i \in 1..Len(res[1].matchedFormats) |-> res[1].matchedFormats[i].score])
           > -999999

\* The hdr priority order as the claim gives it, and the rank of an id in
\* it; an id that is not listed ranks behind all that are.
C7_Order ==
    << "hdr-dolby-vision", "hdr-dolby-vision-no-fallback", "hdr-hdr10plus",
       "hdr-hdr10", "hdr10-missing", "hdr-generic", "hdr-hlg", "hdr-pq",
       "hdr-missing", "hdr-sdr" >>

C7_Rank(id) ==
    IF \E i \in 1..Len(C7_Order) : C7_Order[i] = id
    THEN CHOOSE i \in 1..Len(C7_Order) : C7_Order[i] = id
    ELSE Len(C7_Order) + 1

\* The ids of the hdr-category library formats the attributes of the call match
C7_MatchedHdr ==
    {id \in args.attributes[1] :
        \E i \in 1..Len(ALL_FORMATS) :
            ALL_FORMATS[i].id = id /\ ALL_FORMATS[i].category = "hdr"}

\* C7: every result of scoreRelease holds at most one hdr-category format and
\* breakdown.hdr lists at most one name; when hdr formats matched, the one
\* kept is one of them and none of them comes earlier in the fixed order, an
\* unlisted id ranking behind every listed one.
C7_SingleBestHdr ==
    Scored =>
        LET r == res[1]
            keptAt == {i \in 1..Len(r.matchedFormats) :
                          r.matchedFormats[i].format.category = "hdr"}
        IN  /\ Cardinality(keptAt) <= 1
            /\ Len(r.breakdown.hdr.formats) <= 1
            /\ C7_MatchedHdr # {} =>
                   \E i \in keptAt :
                       /\ r.matchedFormats[i].format.id \in C7_MatchedHdr
                       /\ r.breakdown.hdr.formats = <<r.matchedFormats[i].format.name>>
                       /\ \A h \in C7_MatchedHdr :
                              C7_Rank(r.matchedFormats[i].format.id) <= C7_Rank(h)

\* C7 witness: an unlisted hdr format, the generic one and Dolby Vision all
\* matched (in that library order) and only Dolby Vision is in the result.
C7_Witness ==
    /\ Scored
    /\ {"hdr-custom-a", "hdr-generic", "hdr-dolby-vision"} \subseteq args.attributes[1]
    /\ res[1].breakdown.hdr.formats = <<"Dolby Vision">>

\* C8: for a release that is not banned, totalScore is the sum over the
\* formats that survived exclusivity of the profile's score for the format
\* id, 0 for an id the profile has no entry for.
C8_TotalIsSumOfProfileScores ==
    Scored =>
        LET r == res[1]
        IN  ~r.isBanned =>
                r.totalScore =
                    Num(SumSeq([i \in 1..Len(r.matchedFormats) |->
                                   ProfileScore(r.matchedFormats[i].format.id)]))

\* C8 witness: a result that is not banned, with a matched format the
\* profile has no entry for and two that it scores, one of them negatively.
C8_Witness ==
    /\ Scored
    /\ ~res[1].isBanned
    /\ \E f \in Survivors : f.id \notin DOMAIN args.profile.formatScores
    /\ \E f \in Survivors : ProfileScore(f.id) > 0
    /\ \E f \in Survivors : ProfileScore(f.id) < 0

\* The call is for a TV release with a positive size
C9_TvCall ==
    /\ args.sizeContext # None
    /\ args.sizeContext[1].mediaType = "tv"
    /\ args.fileSizeBytes # None
    /\ args.fileSizeBytes[1] > 0

\* ... that is a season pack whose episode count is absent, zero or negative
C9_UnknownCountPack ==
    /\ args.sizeContext[1].isSeasonPack = Some(TRUE)
    /\ \/ args.sizeContext[1].episodeCount = None
       \/ args.sizeContext[1].episodeCount[1] <= 0

\* C9: a TV season pack whose episodeCount is absent, zero or negative is
\* never size-rejected, whatever its size and the profile's episode limits.
C9_UnknownCountPackNeverRejected ==
    (Scored /\ C9_TvCall /\ C9_UnknownCountPack) => ~res[1].sizeRejected

\* C9 witness: a 10 GB season pack with no episode count is let through
\* under an episode maximum of 800 MB.
C9_Witness ==
    /\ Scored /\ C9_TvCall /\ C9_UnknownCountPack
    /\ args.fileSizeBytes = Some(10 * 1024 * 1024)
    /\ args.sizeContext[1].episodeCount = None
    /\ args.profile.episodeMaxSizeMb = Some(800)
    /\ ~res[1].sizeRejected

\* The figure the claim has checked against the episode limits, as size in
\* units of 1024 bytes over a divisor: 1024 units per MB, times episodeCount
\* for a season pack with a positive count.
C10_Divisor ==
    IF /\ args.sizeContext[1].isSeasonPack = Some(TRUE)
       /\ args.sizeContext[1].episodeCount # None
       /\ args.sizeContext[1].episodeCount[1] > 0
    THEN 1024 * args.sizeContext[1].episodeCount[1]
    ELSE 1024

C10_OutsideEpisodeLimits ==
    \/ /\ args.profile.episodeMinSizeMb # None
       /\ args.fileSizeBytes[1] < args.profile.episodeMinSizeMb[1] * C10_Divisor
    \/ /\ args.profile.episodeMaxSizeMb # None
       /\ args.fileSizeBytes[1] > args.profile.episodeMaxSizeMb[1] * C10_Divisor

\* C10 as stated: for every TV call with a positive size, sizeRejected is
\* true exactly when the size in MB, divided by episodeCount for a season
\* pack with a positive count and undivided otherwise, is outside the limits.
C10_Original ==
    (Scored /\ C9_TvCall) => (res[1].sizeRejected <=> C10_OutsideEpisodeLimits)

\* C10 amended: the same, for every TV call with a positive size except a
\* season pack whose episodeCount is absent, zero or negative (nothing is
\* checked for that one); a limit the profile does not set never rejects and
\* a figure equal to a limit is accepted.
C10_EpisodeSizeGate ==
    (Scored /\ C9_TvCall /\ ~C9_UnknownCountPack) =>
        (res[1].sizeRejected <=> C10_OutsideEpisodeLimits)

\* C10 witness: a 10 GB pack of 10 episodes (1024 MB on average) is
\* rejected under episodeMaxSizeMb = 800.
C10_Witness ==
    /\ Scored /\ C9_TvCall
    /\ args.fileSizeBytes = Some(10 * 1024 * 1024)
    /\ args.sizeContext[1].isSeasonPack = Some(TRUE)
    /\ args.sizeContext[1].episodeCount = Some(10)
    /\ args.profile.episodeMaxSizeMb = Some(800)
    /\ res[1].sizeRejected

----------------------------------------------------------------------------
(* Claims about isUpgrade *)

\* The candidate's scoring result bars it from being an upgrade
C4_CandidateBarred ==
    LET c == res[1].candidate
    IN  c.isBanned \/ c.sizeRejected \/ c.protocolRejected \/ ~c.meetsMinimum

\* C4: isUpgrade answers isUpgrade = false whenever the candidate's scoring
\* result is banned, size-rejected, protocol-rejected or below the minimum,
\* for every existing release, minimumImprovement (negative ones included)
\* and allowSidegrade; no score difference is computed then (improvement 0).
C4_BarredCandidateNeverUpgrade ==
    Upgraded =>
        /\ res[1].candidate.releaseName = args.candidateRelease
        /\ C4_CandidateBarred =>
               (res[1].isUpgrade = FALSE /\ res[1].improvement = Num(0))

\* C4 witness: a candidate that is not banned but below the minimum and
\* scores higher than the existing release, with a negative
\* minimumImprovement and sidegrades allowed, is not an upgrade.
C4_Witness ==
    /\ Upgraded
    /\ ~res[1].candidate.isBanned /\ ~res[1].candidate.meetsMinimum
    /\ res[1].existing.totalScore.k = "num"
    /\ res[1].candidate.totalScore.v > res[1].existing.totalScore.v
    /\ args.options.minimumImprovement = Some(-500)
    /\ args.options.allowSidegrade = Some(TRUE)
    /\ ~res[1].isUpgrade

\* The options of the call with their defaults applied
C5_MinimumImprovement ==
    IF args.options.minimumImprovement = None THEN 0
    ELSE args.options.minimumImprovement[1]

C5_AllowSidegrade == args.options.allowSidegrade = Some(TRUE)

\* C5: for a candidate that is not barred, improvement is the candidate's
\* totalScore minus the existing one's (+Infinity over a banned existing
\* release) and isUpgrade is improvement >= minimumImprovement when
\* allowSidegrade is true, improvement > minimumImprovement otherwise, with
\* defaults 0 and false.  So with minimumImprovement 0 a release compared
\* with itself is an upgrade exactly when allowSidegrade is true (and with
\* any minimumImprovement >= 0 only then), and with the defaults a
\* lower-scoring candidate is never an upgrade.
C5_UpgradeDecision ==
    (Upgraded /\ ~C4_CandidateBarred) =>
        LET r == res[1]
            c == r.candidate.totalScore
            e == r.existing.totalScore
        IN  /\ c.k = "num"
            /\ e.k = "num" =>
                   /\ r.improvement = Num(c.v - e.v)
                   /\ r.isUpgrade <=>
                          IF C5_AllowSidegrade
                          THEN c.v - e.v >= C5_MinimumImprovement
                          ELSE c.v - e.v > C5_MinimumImprovement
            /\ e.k = "-inf" => (r.improvement = PosInf /\ r.isUpgrade)
            /\ (args.existingRelease = args.candidateRelease /\ C5_MinimumImprovement = 0)
                   => (r.isUpgrade <=> C5_AllowSidegrade)
            /\ (/\ args.existingRelease = args.candidateRelease
                /\ C5_MinimumImprovement >= 0 /\ r.isUpgrade) => C5_AllowSidegrade
            /\ (/\ args.options.minimumImprovement = None
                /\ args.options.allowSidegrade = None
                /\ e.k = "num" /\ c.v < e.v) => ~r.isUpgrade

\* C5 witness: an acceptable release compared with itself, sidegrades
\* allowed and minimumImprovement left at its default, is an upgrade with
\* improvement 0.
C5_Witness ==
    /\ Upgraded /\ ~C4_CandidateBarred
    /\ args.existingRelease = args.candidateRelease
    /\ args.options.minimumImprovement = None
    /\ args.options.allowSidegrade = Some(TRUE)
    /\ res[1].improvement = Num(0)
    /\ res[1].isUpgrade

----------------------------------------------------------------------------
(* Claims about rankReleases *)

\* The ranked results in output order
C6_Output == [i \in 1..Len(res[1]) |-> res[1][i].result]

C6_Rejected(e) == e.isBanned \/ e.sizeRejected \/ e.protocolRejected

\* The names, in output order, of the results that are not rejected and score v
C6_NamesScoring(v) ==
    LET hit(e) == ~C6_Rejected(e) /\ e.totalScore = v
        sel == SelectSeq(C6_Output, hit)
    IN  [i \in 1..Len(sel) |-> sel[i].releaseName]

\* The names of the input releases, in input order, that the output shows
\* as not rejected and scoring v
C6_InputNamesScoring(v) ==
    LET hit(r) == \E k \in 1..Len(C6_Output) :
                      /\ C6_Output[k].releaseName = r.name
                      /\ ~C6_Rejected(C6_Output[k])
                      /\ C6_Output[k].totalScore = v
        sel == SelectSeq(args.releases, hit)
    IN  [i \in 1..Len(sel) |-> sel[i].name]

\* C6: in the output of rankReleases no banned, size-rejected or
\* protocol-rejected release precedes one that is none of these, the
\* totalScore of the releases that are not rejected never increases from one
\* to the next, and releases of equal score keep their input order.
C6_RankOrder ==
    Ranked =>
        LET o == C6_Output
        IN  /\ \A i, j \in 1..Len(o) :
                   i < j => ~(C6_Rejected(o[i]) /\ ~C6_Rejected(o[j]))
            /\ \A i, j \in 1..Len(o) :
                   (i < j /\ ~C6_Rejected(o[i]) /\ ~C6_Rejected(o[j])) =>
                       /\ o[i].totalScore.k = "num" /\ o[j].totalScore.k = "num"
                       /\ o[i].totalScore.v >= o[j].totalScore.v
            /\ \A i \in 1..Len(o) :
                   ~C6_Rejected(o[i]) =>
                       C6_NamesScoring(o[i].totalScore)
                           = C6_InputNamesScoring(o[i].totalScore)

\* C6 witness: a banned release given first comes out last, behind two
\* releases of equal score that come out in the order they were given, the
\* second episode before the first.
C6_Witness ==
    /\ Ranked
    /\ Len(res[1]) = 3
    /\ C6_Output[3].isBanned
    /\ args.releases[1].name = C6_Output[3].releaseName
    /\ ~C6_Output[1].isBanned /\ ~C6_Output[2].isBanned
    /\ C6_Output[1].totalScore = C6_Output[2].totalScore
    /\ C6_Output[1].releaseName = "Show.S01E02.1080p.WEB-DL.x264-GROUP"
    /\ C6_Output[2].releaseName = "Show.S01E01.1080p.WEB-DL.x264-GROUP"

----------------------------------------------------------------------------
(* Claims about the size and protocol gates *)

\* The call is for a movie with a positive size
C11_MovieCall ==
    /\ args.sizeContext # None
    /\ args.sizeContext[1].mediaType = "movie"
    /\ args.fileSizeBytes # None
    /\ args.fileSizeBytes[1] > 0

\* The size in GB (units of 1024 bytes over 1024 * 1024) is outside the
\* movie limits the profile sets
C11_OutsideMovieLimits ==
    \/ /\ args.profile.movieMinSizeGb # None
       /\ args.fileSizeBytes[1] < args.profile.movieMinSizeGb[1] * 1024 * 1024
    \/ /\ args.profile.movieMaxSizeGb # None
       /\ args.fileSizeBytes[1] > args.profile.movieMaxSizeGb[1] * 1024 * 1024

\* C11: for a movie call with a positive size, sizeRejected is true exactly
\* when the size in GB is below movieMinSizeGb or above movieMaxSizeGb, an
\* absent limit never rejecting; so the episode limits play no part for a
\* movie, and a TV release is rejected only when it is outside the episode
\* limits, never for the movie limits.
C11_MovieSizeGate ==
    Scored =>
        /\ C11_MovieCall => (res[1].sizeRejected <=> C11_OutsideMovieLimits)
        /\ C9_TvCall => (res[1].sizeRejected => C10_OutsideEpisodeLimits)

\* C11 witness: an 800 MB movie is rejected under movieMinSizeGb = 1 by a
\* profile whose only episode limit, a maximum of 800 MB, it meets.
C11_Witness ==
    /\ Scored /\ C11_MovieCall
    /\ args.fileSizeBytes = Some(800 * 1024)
    /\ args.profile.movieMinSizeGb = Some(1)
    /\ args.profile.episodeMinSizeMb = None
    /\ args.profile.episodeMaxSizeMb = Some(800)
    /\ res[1].sizeRejected

\* C12: protocolRejected is true exactly when a protocol is supplied, the
\* profile's allowedProtocols is a list that is not empty, and the protocol
\* is not in it; with no protocol, or with allowedProtocols absent or empty,
\* nothing is protocol-rejected.
C12_ProtocolRejectedExactly ==
    Scored =>
        LET allowed == args.profile.allowedProtocols
        IN  res[1].protocolRejected <=>
                /\ args.protocol # None
                /\ allowed # None
                /\ allowed[1] # <<>>
                /\ \A i \in 1..Len(allowed[1]) : allowed[1][i] # args.protocol[1]

\* C12 witness: a torrent is rejected by a profile that allows only usenet.
C12_Witness ==
    /\ Scored
    /\ args.protocol = Some("torrent")
    /\ args.profile.allowedProtocols = Some(<<"usenet">>)
    /\ res[1].protocolRejected

\* C13: in every result sizeRejectionReason is defined exactly when
\* sizeRejected is true, protocolRejectionReason is defined exactly when
\* protocolRejected is true and then names the rejected protocol and the
\* allowed ones, and bannedReasons is not empty exactly when isBanned is true.
C13_ReasonsAccompanyRejections ==
    Scored =>
        LET r == res[1]
        IN  /\ r.sizeRejectionReason # None <=> r.sizeRejected
            /\ r.protocolRejectionReason # None <=> r.protocolRejected
            /\ r.protocolRejected =>
                   /\ r.protocolRejectionReason[1].protocol = args.protocol[1]
                   /\ r.protocolRejectionReason[1].accepts
                          = args.profile.allowedProtocols[1]
            /\ r.bannedReasons # <<>> <=> r.isBanned

\* C13 witness: a result that is banned, size-rejected and
\* protocol-rejected at once and carries all three reasons.
C13_Witness ==
    /\ Scored
    /\ res[1].isBanned /\ res[1].sizeRejected /\ res[1].protocolRejected
    /\ res[1].bannedReasons # <<>>
    /\ res[1].sizeRejectionReason # None
    /\ res[1].protocolRejectionReason # None

----------------------------------------------------------------------------
(* Claims about compareReleases and filterQualityReleases *)

\* a is strictly greater than b, for total scores (a number or -Infinity)
C14_Greater(a, b) ==
    a.k = "num" /\ (b.k = "-inf" \/ (b.k = "num" /\ a.v > b.v))

\* C14: compareReleases gives winner = release1 when release1's totalScore
\* is strictly greater than release2's, release2 when it is strictly
\* smaller and tie when the two are equal, also when both are -Infinity; a
\* banned release never wins against one that is not banned.
C14_WinnerByStrictComparison ==
    Compared =>
        LET r1 == res[1].release1Score
            r2 == res[1].release2Score
        IN  /\ r1.releaseName = args.release1 /\ r2.releaseName = args.release2
            /\ C14_Greater(r1.totalScore, r2.totalScore) => res[1].winner = "release1"
            /\ C14_Greater(r2.totalScore, r1.totalScore) => res[1].winner = "release2"
            /\ r1.totalScore = r2.totalScore => res[1].winner = "tie"
            /\ (r1.isBanned /\ ~r2.isBanned) => res[1].winner # "release1"
            /\ (r2.isBanned /\ ~r1.isBanned) => res[1].winner # "release2"

\* C14 witness: two different banned releases tie.
C14_Witness ==
    /\ Compared
    /\ args.release1 # args.release2
    /\ res[1].release1Score.isBanned /\ res[1].release2Score.isBanned
    /\ res[1].release1Score.totalScore = NegInf
    /\ res[1].winner = "tie"

\* The scoring results of the input releases of the call, in input order
C15_ScoredInputs ==
    [i \in 1..Len(args.releases) |->
        scoreRelease(args.releases[i].name, args.profile, args.releases[i].attributes,
                     args.releases[i].sizeBytes, None, None)]

C15_Qualifies(r) ==
    r.meetsMinimum /\ ~r.isBanned /\ ~r.sizeRejected /\ ~r.protocolRejected

\* C15: filterQualityReleases returns, in input order, exactly the scoring
\* results of the input releases that meet the minimum and are not banned,
\* size-rejected or protocol-rejected; none of its output is banned or below
\* the minimum and no qualifying release is left out.
C15_FilterExactlyQualifying ==
    Filtered =>
        /\ res[1] = SelectSeq(C15_ScoredInputs, C15_Qualifies)
        /\ \A i \in 1..Len(res[1]) : res[1][i].meetsMinimum /\ ~res[1][i].isBanned
        /\ \A i \in 1..Len(C15_ScoredInputs) :
               C15_Qualifies(C15_ScoredInputs[i]) =>
                   \E j \in 1..Len(res[1]) : res[1][j] = C15_ScoredInputs[i]

\* C15 witness: of three releases the second, which is not banned but
\* scores below the minimum, is left out and the other two, different
\* releases, come back in the order given.
C15_Witness ==
    /\ Filtered
    /\ Len(args.releases) = 3 /\ Len(res[1]) = 2
    /\ ~C15_ScoredInputs[2].isBanned /\ ~C15_ScoredInputs[2].meetsMinimum
    /\ res[1][1].releaseName = args.releases[1].name
    /\ res[1][2].releaseName = args.releases[3].name
    /\ args.releases[1].name # args.releases[3].name

----------------------------------------------------------------------------
(* Claims about calls in a session *)

\* A scoreRelease call has returned that repeats the remembered call in
\* every argument
C16_Repeated ==
    /\ pc = "returned"
    /\ op = "scoreRelease"
    /\ memo # None
    /\ args = memo[1].args

\* C16: scoreRelease is deterministic and keeps no state between calls: a
\* call with the same release, attributes, profile, size, size context and
\* protocol as an earlier one returns a result equal to the earlier result in
\* every field, whatever calls were made in between and whatever they left in
\* the pattern cache.
C16_SameCallSameResult == C16_Repeated => res[1] = memo[1].res

\* The remembered call is repeated after other calls, with patterns held in
\* the cache
C16_Witness ==
    /\ C16_Repeated
    /\ memo[1].between >= 1
    /\ res[1] # Thrown
    /\ res[1].matchedFormats # <<>>
    /\ patternCache # EmptyCache

\* The patterns the library holds against a release title
C17_TitlePatterns ==
    UNION { { FORMAT_CONDITIONS[id][i].pattern :
                i \in {j \in 1..Len(FORMAT_CONDITIONS[id]) :
                          FORMAT_CONDITIONS[id][j].type = "release_title"} } :
            id \in DOMAIN FORMAT_CONDITIONS }

\* The attributes the release of a call produces: the supplied ones, else
\* what the parser reads off the name
C17_Attributes(call) ==
    IF call.attributes # None THEN call.attributes[1]
    ELSE parseAttributes(call.releaseName)

\* Two releases produce identical attributes: every attribute but the title
\* is equal, and the titles differ at most where no title pattern of the
\* library looks (an episode number)
C17_SameAttributes(a, b) ==
    /\ [a EXCEPT !.title = b.title] = b
    /\ \A pattern \in C17_TitlePatterns :
           RegExpTest(NewRegExp(pattern), a.title)
               <=> RegExpTest(NewRegExp(pattern), b.title)

\* A scoreRelease call has returned whose profile is the remembered call's
\* and whose release produces the attributes of the remembered release
C17_SameAttributesAndProfile ==
    /\ pc = "returned"
    /\ op = "scoreRelease"
    /\ memo # None
    /\ args.profile = memo[1].args.profile
    /\ C17_SameAttributes(C17_Attributes(args), C17_Attributes(memo[1].args))

\* C17: for every profile, two scoreRelease calls on releases that produce
\* identical attributes return the same totalScore, whatever the release
\* names are and whether the size context is a single episode's or a season
\* pack's.
C17_ScoreByAttributesAndProfile ==
    C17_SameAttributesAndProfile => res[1].totalScore = memo[1].res.totalScore

\* A release with another name, scored as a season pack, has the attributes
\* and the profile of the remembered single episode
C17_Witness ==
    /\ C17_SameAttributesAndProfile
    /\ args.releaseName # memo[1].args.releaseName
    /\ args.sizeContext # None
    /\ args.sizeContext[1].isSeasonPack = Some(TRUE)
    /\ memo[1].args.sizeContext[1].isSeasonPack = Some(FALSE)
    /\ res[1].matchedFormats # <<>>

----------------------------------------------------------------------------
(* Claims about the matcher *)

\* The conditions of the evaluated format
C18_Conditions == args.format.conditions

\* The condition at position i, evaluated on its own, matches the release
C18_Matches(i) ==
    evaluateCondition(C18_Conditions[i], args.attrs, EmptyCache).result.matches

C18_AllRequiredMatch ==
    \A i \in 1..Len(C18_Conditions) : C18_Conditions[i].required => C18_Matches(i)

C18_HasOptional == \E i \in 1..Len(C18_Conditions) : ~C18_Conditions[i].required

C18_SomeOptionalMatches ==
    \E i \in 1..Len(C18_Conditions) : ~C18_Conditions[i].required /\ C18_Matches(i)

\* createRelease() of the matcher's tests
C18_TestRelease ==
    Attrs("Movie.2024.2160p.UHD.BluRay.REMUX.DV.HDR.TrueHD.Atmos.7.1-GROUP",
          "2160p", "bluray", Some("dolby-vision"), Some("GROUP"),
          Some(TRUE), Some(FALSE))

\* What the matcher's tests expect of formats evaluated on their release
C18_TestsExpect ==
    args.attrs = C18_TestRelease =>
        /\ C18_Conditions = <<Resolution("2160p", TRUE, FALSE), Source("bluray", TRUE)>>
               => res[1].matches
        /\ C18_Conditions = <<Resolution("2160p", TRUE, FALSE), Source("webdl", TRUE)>>
               => ~res[1].matches
        /\ C18_Conditions = <<Resolution("2160p", TRUE, FALSE),
                              Hdr("dolby-vision", FALSE), Hdr("hdr10", FALSE)>>
               => res[1].matches
        /\ C18_Conditions = <<>> => res[1].matches
        /\ C18_Conditions = <<Resolution("480p", FALSE, FALSE),
                              Resolution("720p", FALSE, FALSE)>>
               => ~res[1].matches
        /\ C18_Conditions = <<Resolution("480p", FALSE, FALSE),
                              Resolution("2160p", FALSE, FALSE)>>
               => res[1].matches

\* C18: evaluateFormat reports matches = true exactly when every required
\* condition matches and, if the format has an optional condition, at least
\* one optional condition matches; so a format without conditions matches, a
\* format with only required conditions needs all of them, and a format
\* with only optional conditions of which none matches does not match.
C18_RequiredAllOptionalAny ==
    FormatEvaluated =>
        /\ ~res[1].threw
        /\ res[1].matches <=>
               (C18_AllRequiredMatch /\ (C18_HasOptional => C18_SomeOptionalMatches))
        /\ C18_Conditions = <<>> => res[1].matches
        /\ ~C18_HasOptional => (res[1].matches <=> C18_AllRequiredMatch)
        /\ (C18_HasOptional /\ ~C18_SomeOptionalMatches) => ~res[1].matches
        /\ C18_TestsExpect

\* A format without conditions was evaluated and matched
C18_Witness ==
    /\ FormatEvaluated
    /\ C18_Conditions = <<>>
    /\ res[1].matches
    /\ res[1].conditionResults = <<>>

\* The evaluated condition with its negate flag flipped, evaluated on the
\* same release
C19_Twin ==
    evaluateCondition([args.condition EXCEPT !.negate = ~@], args.attrs,
                      EmptyCache).result

\* What the matcher's tests expect of a negated resolution condition
C19_TestsExpect ==
    args.condition = Resolution("2160p", TRUE, TRUE) =>
        /\ args.attrs.resolution = "2160p" => (res[1].rawMatch /\ ~res[1].matches)
        /\ args.attrs.resolution = "1080p" => (~res[1].rawMatch /\ res[1].matches)

\* C19: evaluateCondition returns a rawMatch that does not depend on the
\* negate flag, and matches = rawMatch when negate is false, matches = not
\* rawMatch when it is true; so exactly one of a condition and its negated
\* twin matches a release, and the twin of the twin matches as the condition.
C19_NegateInvertsMatchesOnly ==
    Evaluated =>
        /\ ~res[1].threw
        /\ res[1].matches <=> (IF args.condition.negate THEN ~res[1].rawMatch
                                ELSE res[1].rawMatch)
        /\ C19_Twin.rawMatch <=> res[1].rawMatch
        /\ C19_Twin.matches <=> ~res[1].matches
        /\ C19_TestsExpect

\* A negated condition whose predicate holds of the release was evaluated
C19_Witness ==
    /\ Evaluated
    /\ args.condition.negate
    /\ res[1].rawMatch
    /\ ~res[1].matches
    /\ C19_Twin.matches

\* The evaluated condition holds a pattern, and the pattern is not a valid
\* regular expression
C20_InvalidPattern ==
    /\ args.condition.type \in {"release_title", "release_group"}
    /\ args.condition.pattern \in INVALID_PATTERNS

\* The evaluated condition refers to an attribute the release lacks
C20_MissingAttribute ==
    \/ /\ args.condition.type = "release_group"
       /\ args.attrs.releaseGroup = None
    \/ /\ args.condition.type = "flag"
       /\ args.attrs[args.condition.flag] \in {None, Some(FALSE)}

\* C20: evaluateCondition never throws and degrades to a non-match: a
\* release_title or release_group condition whose pattern is not a valid
\* regular expression has rawMatch = false for every release, when the
\* pattern is compiled for the first time and when it is found in the cache,
\* and a condition on an attribute the release lacks (a release_group
\* pattern without releaseGroup, a flag that is false or undefined) has
\* rawMatch = false.
C20_NeverThrowsNonMatch ==
    Evaluated =>
        /\ ~res[1].threw
        /\ C20_InvalidPattern => ~res[1].rawMatch
        /\ C20_MissingAttribute => ~res[1].rawMatch

\* A condition with an invalid pattern was evaluated on a release that has
\* the attribute, the pattern was found in the cache, and it did not match
C20_Witness ==
    /\ Evaluated
    /\ C20_InvalidPattern
    /\ ~C20_MissingAttribute
    /\ lookup = "hit"
    /\ ~res[1].threw
    /\ ~res[1].rawMatch

----------------------------------------------------------------------------
(* Claims about the pattern cache *)

\* What the returned call returns in a process that holds no compiled
\* pattern: one that never caches, or whose cache was just cleared
C21_WithoutCache ==
    CASE op = "evaluateCondition" ->
             evaluateCondition(args.condition, args.attrs, EmptyCache).result
      [] op = "evaluateFormat" ->
             evaluateFormat(args.format, args.attrs, EmptyCache).result
      [] op = "scoreRelease" -> scoreReleaseWithCache(args, EmptyCache).result

C21_Returned ==
    pc = "returned" /\ op \in {"evaluateCondition", "evaluateFormat", "scoreRelease"}

\* C21: the pattern cache is invisible to results: in every sequence of
\* evaluateCondition, evaluateFormat, scoreRelease and clearPatternCache
\* calls, each call returns what it returns without any cached pattern,
\* whether its patterns were compiled before (a cache hit), never, or
\* compiled and cleared again.
C21_CacheInvisible == C21_Returned => res[1] = C21_WithoutCache

\* A release_group pattern of the library, which an earlier scoreRelease call
\* compiled, is evaluated and not found in the cache: the cache was cleared
\* in between, and the pattern matches as it does without a cache
C21_Witness ==
    /\ Evaluated
    /\ memo # None
    /\ args.condition.type = "release_group"
    /\ \E i \in 1..Len(FORMAT_CONDITIONS["group-yts"]) :
           /\ FORMAT_CONDITIONS["group-yts"][i].type = "release_group"
           /\ FORMAT_CONDITIONS["group-yts"][i].pattern = args.condition.pattern
    /\ lookup = "miss"
    /\ res[1].rawMatch

----------------------------------------------------------------------------
(* Claims about the score lookup, mutual exclusivity and the breakdown *)

\* The ids of the formats the attributes of the call match
C22_MatchedIds ==
    IF args.attributes # None THEN args.attributes[1]
    ELSE parseRelease(args.releaseName)

C22_LibraryFormat(id) ==
    ALL_FORMATS[CHOOSE i \in 1..Len(ALL_FORMATS) : ALL_FORMATS[i].id = id]

\* The matched formats that mutual exclusivity cannot drop and for which the
\* profile has no entry: not of category hdr, or the only hdr format matched
C22_Unscored ==
    { C22_LibraryFormat(id) :
        id \in { m \in C22_MatchedIds :
                   /\ m \notin DOMAIN args.profile.formatScores
                   /\ \/ C22_LibraryFormat(m).category # "hdr"
                      \/ \A n \in C22_MatchedIds :
                             C22_LibraryFormat(n).category = "hdr" => n = m } }

\* The format is in result.matchedFormats with score 0
C22_KeptWithZero(f) ==
    \E i \in 1..Len(res[1].matchedFormats) :
        /\ res[1].matchedFormats[i].format = f
        /\ res[1].matchedFormats[i].score = 0

\* The buckets of the breakdown that list the name of the format
C22_BucketsListing(f) ==
    { key \in BreakdownKeys :
        \E i \in 1..Len(res[1].breakdown[key].formats) :
            res[1].breakdown[key].formats[i] = f.name }

\* C22: a matched format for which the profile has no entry is not dropped:
\* it is in result.matchedFormats with score 0 and its name is listed in the
\* breakdown, whatever its category.  Violated for a format of category
\* other, which buildBreakdown puts into no bucket.
C22_UnscoredKeptAndListed ==
    Scored =>
        \A f \in C22_Unscored : C22_KeptWithZero(f) /\ C22_BucketsListing(f) # {}

\* How often x occurs in the list s
C23_Count(s, x) == Cardinality({i \in 1..Len(s) : s[i] = x})

\* C23: applyMutualExclusivity leaves the matched formats whose category is
\* not hdr as they are and in their order; it returns its input unchanged
\* when at most one hdr format matched, and otherwise the non-hdr matches in
\* their order followed by one of the hdr matches; what it returns is a
\* sub-collection of its input, and applying it to its own result changes
\* nothing.
C23_ExclusivityFrame ==
    Excluded =>
        LET input == args.matchedFormats
            output == res[1]
            hdrFormats == SelectSeq(input, IsHdr)
        IN  /\ SelectSeq(output, NotHdr) = SelectSeq(input, NotHdr)
            /\ Len(hdrFormats) <= 1 => output = input
            /\ Len(hdrFormats) > 1 =>
                   \E i \in 1..Len(hdrFormats) :
                       output = Append(SelectSeq(input, NotHdr), hdrFormats[i])
            /\ \A i \in 1..Len(output) :
                   C23_Count(output, output[i]) <= C23_Count(input, output[i])
            /\ applyMutualExclusivity(output, args.profile) = output

\* Several hdr formats matched before other formats: the result is not the
\* input, the others keep their order and one hdr format follows them
C23_Witness ==
    /\ Excluded
    /\ Len(SelectSeq(args.matchedFormats, IsHdr)) > 1
    /\ Len(SelectSeq(args.matchedFormats, NotHdr)) > 1
    /\ res[1] # args.matchedFormats
    /\ Len(SelectSeq(res[1], IsHdr)) = 1
    /\ IsHdr(res[1][Len(res[1])])
    /\ SelectSeq(res[1], NotHdr) = SelectSeq(args.matchedFormats, NotHdr)

\* The categories that go into the bucket: the one of the same name, and for
\* releaseGroupTier the three kinds of release group
C24_CategoriesOf(key) ==
    IF key = "releaseGroupTier" THEN {"release_group_tier", "micro", "low_quality"}
    ELSE {key}

\* The scored formats of the call that belong into the bucket, in their order
C24_Members(key) ==
    LET belongs(mf) == mf.format.category \in C24_CategoriesOf(key)
    IN  SelectSeq(args.scoredFormats, belongs)

\* C24: buildBreakdown puts each scored format of category resolution,
\* source, codec, audio, hdr, streaming, enhancement or banned into the
\* bucket of that name and each format of category release_group_tier, micro
\* or low_quality into the releaseGroupTier bucket, and into no other; every
\* bucket lists the names of its formats and its score is the sum of their
\* scores, so a bucket without a format has score 0 and an empty list.
C24_BucketsByCategory ==
    BrokenDown =>
        /\ DOMAIN res[1] = BreakdownKeys
        /\ \A key \in BreakdownKeys :
               LET members == C24_Members(key)
               IN  /\ res[1][key].formats =
                          [i \in 1..Len(members) |-> members[i].format.name]
                   /\ res[1][key].score =
                          SumSeq([i \in 1..Len(members) |-> members[i].score])
                   /\ members = <<>> =>
                          (res[1][key].score = 0 /\ res[1][key].formats = <<>>)

\* Formats of category micro and release_group_tier and one of category
\* resolution were broken down: the releaseGroupTier bucket lists the first
\* two, and the hdr bucket is empty
C24_Witness ==
    /\ BrokenDown
    /\ \E i, j, k \in 1..Len(args.scoredFormats) :
           /\ args.scoredFormats[i].format.category = "micro"
           /\ args.scoredFormats[j].format.category = "release_group_tier"
           /\ args.scoredFormats[k].format.category = "resolution"
    /\ Len(res[1]["releaseGroupTier"].formats) = 2
    /\ Len(res[1]["resolution"].formats) = 1
    /\ res[1]["hdr"] = [score |-> 0, formats |-> <<>>]

----------------------------------------------------------------------------
(* Claims about the gates of scoreRelease and of the operations that call it *)

\* The call gives no size, a size of zero or below, or no size context
C25_NoSizeOrContext ==
    \/ args.fileSizeBytes = None
    \/ args.fileSizeBytes[1] <= 0
    \/ args.sizeContext = None

\* C25: the size gate runs only with a positive size and a size context:
\* scoreRelease returns sizeRejected = false, and no reason, whenever
\* fileSizeBytes is undefined, zero or negative or sizeContext is undefined,
\* whatever size limits the profile sets.
C25_SizeGateNeedsSizeAndContext ==
    (Scored /\ C25_NoSizeOrContext) =>
        (~res[1].sizeRejected /\ res[1].sizeRejectionReason = None)

\* A movie of 0 bytes under a profile with a minimum movie size is not
\* rejected for its size
C25_Witness ==
    /\ Scored
    /\ args.fileSizeBytes = Some(0)
    /\ args.sizeContext # None
    /\ args.sizeContext[1].mediaType = "movie"
    /\ args.profile.movieMinSizeGb = Some(1)
    /\ ~res[1].sizeRejected

\* The scoring results made inside the returned operation
C26_Results ==
    CASE op = "rankReleases" -> {res[1][i].result : i \in 1..Len(res[1])}
      [] op = "isUpgrade" -> {res[1].existing, res[1].candidate}
      [] op = "compareReleases" ->
             { scoreSized(args.release1, args.profile, args.attrs1, args.size1Bytes),
               scoreSized(args.release2, args.profile, args.attrs2, args.size2Bytes) }
      [] op = "filterQualityReleases" ->
             { scoreSized(args.releases[i].name, args.profile,
                          args.releases[i].attributes, args.releases[i].sizeBytes) :
                 i \in 1..Len(args.releases) }

C26_Returned ==
    /\ pc = "returned"
    /\ op \in {"compareReleases", "rankReleases", "filterQualityReleases", "isUpgrade"}

\* C26: the results made inside compareReleases, rankReleases,
\* filterQualityReleases and isUpgrade have sizeRejected = false and
\* protocolRejected = false, whatever size limits and allowed protocols the
\* profile sets and whatever size is supplied; a release is rejected in them
\* only by a ban, and misses the minimum only by a ban or by its score.
C26_NoGatesInsideOperations ==
    C26_Returned =>
        \A r \in C26_Results :
            /\ ~r.sizeRejected /\ r.sizeRejectionReason = None
            /\ ~r.protocolRejected /\ r.protocolRejectionReason = None
            /\ IsRejected(r) <=> r.isBanned
            /\ r.meetsMinimum <=>
                   (~r.isBanned /\ ExtGe(r.totalScore, Num(MinScoreOf(args.profile))))

\* A release of 50 GB is ranked under a profile that allows movies up to
\* 40 GB and names the protocols it accepts, and is not rejected
C26_Witness ==
    /\ Ranked
    /\ args.profile.movieMaxSizeGb = Some(40)
    /\ args.profile.allowedProtocols # None
    /\ \E i \in 1..Len(args.releases) : args.releases[i].sizeBytes = Some(Gb(50))
    /\ \A i \in 1..Len(res[1]) : ~IsRejected(res[1][i].result)
    /\ Len(res[1]) = Len(args.releases)

\* The call without size, size context and protocol
C27_Ungated ==
    scoreRelease(args.releaseName, args.profile, args.attributes, None, None, None)

\* The size and size context of the call on a release that matches no
\* format, without a protocol
C27_SizeAlone ==
    scoreRelease(args.releaseName, args.profile, Some({}), args.fileSizeBytes,
                 args.sizeContext, None)

\* The protocol of the call on a release that matches no format, without a size
C27_ProtocolAlone ==
    scoreRelease(args.releaseName, args.profile, Some({}), None, None, args.protocol)

\* C27: the gates of scoreRelease are independent and always evaluated:
\* fileSizeBytes, sizeContext and protocol change only sizeRejected,
\* protocolRejected, the two reasons and meetsMinimum, and leave totalScore,
\* matchedFormats, breakdown, isBanned and bannedReasons as they are without
\* them; sizeRejected depends neither on the protocol nor on the matched
\* formats, protocolRejected neither on the size nor on the matched formats,
\* and a banned release is size- and protocol-checked like any other.
C27_GatesIndependent ==
    Scored =>
        /\ res[1].totalScore = C27_Ungated.totalScore
        /\ res[1].matchedFormats = C27_Ungated.matchedFormats
        /\ res[1].breakdown = C27_Ungated.breakdown
        /\ res[1].isBanned = C27_Ungated.isBanned
        /\ res[1].bannedReasons = C27_Ungated.bannedReasons
        /\ res[1].releaseName = C27_Ungated.releaseName
        /\ res[1].profile = C27_Ungated.profile
        /\ res[1].sizeRejected = C27_SizeAlone.sizeRejected
        /\ res[1].sizeRejectionReason = C27_SizeAlone.sizeRejectionReason
        /\ res[1].protocolRejected = C27_ProtocolAlone.protocolRejected
        /\ res[1].protocolRejectionReason = C27_ProtocolAlone.protocolRejectionReason
        /\ res[1].meetsMinimum <=>
               (C27_Ungated.meetsMinimum /\ ~res[1].sizeRejected
                /\ ~res[1].protocolRejected)

\* A banned release that is also rejected for its size and for its protocol
C27_Witness ==
    /\ Scored
    /\ res[1].isBanned
    /\ res[1].sizeRejected
    /\ res[1].protocolRejected
    /\ res[1].sizeRejectionReason # None
    /\ res[1].protocolRejectionReason # None
    /\ ~C27_Ungated.sizeRejected /\ ~C27_Ungated.protocolRejected

----------------------------------------------------------------------------
(* Claims about the sum of the breakdown *)

\* The scores of the nine buckets of the returned breakdown added up
C28_BucketSum ==
    res[1].breakdown["resolution"].score + res[1].breakdown["source"].score
    + res[1].breakdown["codec"].score + res[1].breakdown["audio"].score
    + res[1].breakdown["hdr"].score + res[1].breakdown["streaming"].score
    + res[1].breakdown["releaseGroupTier"].score
    + res[1].breakdown["banned"].score + res[1].breakdown["enhancement"].score

\* The scores of all formats in result.matchedFormats added up
C28_FormatSum ==
    SumSeq([i \in 1..Len(res[1].matchedFormats) |-> res[1].matchedFormats[i].score])

\* C28: for every scoring result the scores of the nine breakdown buckets
\* add up to the sum of the scores of all formats in result.matchedFormats,
\* which is totalScore when the release is not banned.  Violated when a
\* format of category other with a score other than 0 matched: it counts in
\* totalScore and in no bucket.
C28_BucketsSumToTotal ==
    Scored =>
        /\ C28_BucketSum = C28_FormatSum
        /\ ~res[1].isBanned => res[1].totalScore = Num(C28_BucketSum)

----------------------------------------------------------------------------
(* Claims about upgrading from a banned release and about both directions *)

\* The options of the returned call with the two releases' attributes and
\* sizes exchanged
C29_SwappedOptions ==
    [ minimumImprovement |-> args.options.minimumImprovement,
      allowSidegrade |-> args.options.allowSidegrade,
      existingAttrs |-> args.options.candidateAttrs,
      candidateAttrs |-> args.options.existingAttrs,
      existingSizeBytes |-> args.options.candidateSizeBytes,
      candidateSizeBytes |-> args.options.existingSizeBytes ]

\* isUpgrade asked the other way round: is the existing release an upgrade
\* over the candidate
C29_Reverse ==
    isUpgrade(args.candidateRelease, args.existingRelease, args.profile,
              C29_SwappedOptions)

\* minimumImprovement is at least 0 (0 when not given) and allowSidegrade is
\* false (also when not given)
C29_StrictOptions ==
    /\ args.options.minimumImprovement # None
           => args.options.minimumImprovement[1] >= 0
    /\ args.options.allowSidegrade \in {None, Some(FALSE)}

\* C29: when the existing release is banned and the candidate is not banned
\* and meets the minimum, isUpgrade returns isUpgrade = true with improvement
\* +Infinity, for every minimumImprovement and both values of allowSidegrade;
\* and with minimumImprovement >= 0 and allowSidegrade false, isUpgrade(a, b)
\* and isUpgrade(b, a) are never both true.
C29_FromBannedAndOneWay ==
    Upgraded =>
        /\ (res[1].existing.isBanned /\ ~res[1].candidate.isBanned
                /\ res[1].candidate.meetsMinimum)
               => /\ res[1].existing.totalScore = NegInf
                  /\ res[1].isUpgrade
                  /\ res[1].improvement = PosInf
        /\ C29_StrictOptions => ~(res[1].isUpgrade /\ C29_Reverse.isUpgrade)

\* A banned existing release was replaced by an acceptable candidate under a
\* minimumImprovement of 400 without allowSidegrade
C29_Witness ==
    /\ Upgraded
    /\ res[1].existing.isBanned /\ ~res[1].candidate.isBanned
    /\ res[1].candidate.meetsMinimum
    /\ args.options.minimumImprovement = Some(400)
    /\ args.options.allowSidegrade = Some(FALSE)
    /\ res[1].isUpgrade /\ ~C29_Reverse.isUpgrade

----------------------------------------------------------------------------
(* Claims about the entries and the ranks of rankReleases *)

\* The input releases scored one by one, in input order
C30_Scored ==
    [i \in 1..Len(args.releases) |->
        scoreSized(args.releases[i].name, args.profile,
                   args.releases[i].attributes, args.releases[i].sizeBytes)]

\* The returned entries without their rank, in output order
C30_Results == [i \in 1..Len(res[1]) |-> res[1][i].result]

\* How many entries of the list s are x
C30_Occurrences(s, x) == Cardinality({i \in 1..Len(s) : s[i] = x})

\* C30: rankReleases returns exactly one entry per input release: the
\* output is a reordering of the scored inputs, none dropped and none
\* duplicated, also when several are banned and the difference of their
\* scores is not a number; and the rank fields are 1, 2, ..., n in output
\* order.
C30_OneEntryEachRankedInOrder ==
    Ranked =>
        /\ Len(res[1]) = Len(args.releases)
        /\ \A i \in 1..Len(C30_Scored) :
               C30_Occurrences(C30_Results, C30_Scored[i])
                   = C30_Occurrences(C30_Scored, C30_Scored[i])
        /\ \A i \in 1..Len(C30_Results) :
               C30_Occurrences(C30_Results, C30_Results[i])
                   = C30_Occurrences(C30_Scored, C30_Results[i])
        /\ \A i \in 1..Len(res[1]) : res[1][i].rank = i

\* Three releases were ranked of which two different ones are banned, so the
\* comparator's difference for them is not a number
C30_Witness ==
    /\ Ranked
    /\ Len(args.releases) = 3 /\ Len(res[1]) = 3
    /\ \E i, j \in 1..3 :
           /\ i < j
           /\ C30_Results[i].isBanned /\ C30_Results[j].isBanned
           /\ C30_Results[i].releaseName # C30_Results[j].releaseName
           /\ ExtSub(C30_Results[j].totalScore, C30_Results[i].totalScore) = NaN
    /\ \E i \in 1..3 : ~C30_Results[i].isBanned
    /\ res[1][1].rank = 1 /\ res[1][2].rank = 2 /\ res[1][3].rank = 3

====
